---- MODULE Spec2Model ----
(***************************************************************************)
(* A model of the Stable Horde client of the emotion-detection service     *)
(* (src/src/clients/horde_client.py): job submission with its single       *)
(* retry, the status poll loop with its timeout, and the materializer      *)
(* that turns a result reference into bytes.                               *)
(*                                                                         *)
(* Conventions.  A Python str that the code inspects character by          *)
(* character is a sequence of one-character strings; an opaque str (a job  *)
(* identifier, a prompt) is a TLA+ string.  A dict is a function whose     *)
(* domain is its key set.  An Optional value is <<>> for None and <<v>>    *)
(* for a value v.  A float with two decimals is an integer count of        *)
(* hundredths (7.5 is 750).  Time is counted in whole units (seconds).     *)
(***************************************************************************)
EXTENDS Integers, Sequences, FiniteSets

VARIABLES
    now,            \* the wall clock read by time.time()
    log,            \* every external effect so far: requests sent and sleeps taken
    s_pc,           \* submit_horde_job: position
    s_args,         \* submit_horde_job: prompt, model, init_image_b64, params
    payload,        \* submit_horde_job: the request body built before the loop
    attempt,        \* submit_horde_job: the loop variable of range(2)
    s_ret,          \* submit_horde_job: <<>> or <<(job_id, data)>>
    s_err,          \* submit_horde_job: "" or the exception raised
    p_pc,           \* poll_horde_job: position
    p_args,         \* poll_horde_job: job_id, poll_interval, timeout
    start_time,     \* poll_horde_job: time.time() at entry
    data,           \* poll_horde_job: <<>> or <<the last parsed status payload>>
    latency,        \* poll_horde_job: how long the last status query took
    p_end,          \* poll_horde_job: the clock when the call ended
    p_ret,          \* poll_horde_job: <<>> or <<images>>
    p_err,          \* poll_horde_job: "" or the exception raised
    b_pc,           \* b64_to_bytes: position
    b64_str,        \* b64_to_bytes: the argument
    b_origin,       \* how the argument was made: its form and the bytes it encodes
    b_ret,          \* b64_to_bytes: <<>> or <<bytes>>
    b_err,          \* b64_to_bytes: "" or the exception raised
    g_pc,           \* call_gemini_multimodal: position
    g_args,         \* call_gemini_multimodal: image_bytes, mode, and the API key in the environment
    g_payload,      \* call_gemini_multimodal: the request body built before the loop
    g_attempt,      \* call_gemini_multimodal: the loop variable of range(2)
    g_ret,          \* call_gemini_multimodal: <<>> or <<the parsed reply>>
    g_err,          \* call_gemini_multimodal: "" or the exception raised
    a_pc,           \* the endpoint handler: position
    request,        \* the endpoint handler: the HTTP request it serves
    response,       \* the endpoint handler: <<>> or <<the HTTP response>>
    provider,       \* the profile of the remote services during this run
    heap,           \* two calls side by side: the dict objects they hold, by identity
    calls           \* two calls side by side: the locals of each call

vars == <<now, log, s_pc, s_args, payload, attempt, s_ret, s_err,
          p_pc, p_args, start_time, data, latency, p_end, p_ret, p_err,
          b_pc, b64_str, b_origin, b_ret, b_err,
          g_pc, g_args, g_payload, g_attempt, g_ret, g_err,
          a_pc, request, response, provider, heap, calls>>

s_vars == <<s_pc, s_args, payload, attempt, s_ret, s_err>>
p_vars == <<p_pc, p_args, start_time, data, latency, p_end, p_ret, p_err>>
b_vars == <<b_pc, b64_str, b_origin, b_ret, b_err>>
g_vars == <<g_pc, g_args, g_payload, g_attempt, g_ret, g_err>>
a_vars == <<a_pc, request, response, provider>>
c_vars == <<heap, calls>>

(***************************************************************************)
(* Python values                                                           *)
(***************************************************************************)
None == <<>>
Some(v) == <<v>>

\* dict.get(key, default)
Get(d, key, default) == IF key \in DOMAIN d THEN d[key] ELSE default

\* dict.update(other): the keys of other override or extend d
Update(d, other) ==
    [k \in DOMAIN d \cup DOMAIN other |-> IF k \in DOMAIN other THEN other[k] ELSE d[k]]

EmptyDict == [k \in {} |-> 0]

\* str.startswith(prefix) on character sequences
StartsWith(s, prefix) ==
    /\ Len(s) >= Len(prefix)
    /\ SubSeq(s, 1, Len(prefix)) = prefix

\* all sequences over S of length at most n
SeqsUpTo(S, n) == UNION {[1..k -> S] : k \in 0..n}

(***************************************************************************)
(* submit_horde_job                                                        *)
(***************************************************************************)
\* the sleep between the two submission attempts
BackoffDelay == 2
\* range(2): the number of submission attempts
MaxAttempts == 2
\* the denoising strength injected for a seed image, in hundredths
DefaultDenoising == 75
\* the status the provider answers an accepted submission with
Accepted == 202

default_params ==
    [steps |-> 30, width |-> 512, height |-> 512, cfg_scale |-> 750,
     sampler_name |-> "k_euler"]

\* if params: default_params.update(params)
MergeNoOverride(params) ==
    IF params # None /\ params[1] # EmptyDict
    THEN Update(params[1], default_params)
    ELSE default_params
MergeParams(params) ==
    IF params # None /\ params[1] # EmptyDict
    THEN Update(default_params, params[1])
    ELSE default_params

\* if init_image_b64: (None and the empty string are both false)
SeedPresent(init_image_b64) == init_image_b64 # None /\ init_image_b64[1] # <<>>

\* lines 47-48: the injection of the default denoising strength
InjectDenoising(init_image_b64, merged) ==
    IF SeedPresent(init_image_b64) /\ "denoising_strength" \notin DOMAIN merged
    THEN Update(merged, [denoising_strength |-> DefaultDenoising])
    ELSE merged

BuildPayload(prompt, model, init_image_b64, params) ==
    LET merged == MergeParams(params)
        base == [prompt |-> prompt, models |-> <<model>>,
                 params |-> InjectDenoising(init_image_b64, merged),
                 nsfw |-> FALSE, trusted_workers |-> TRUE, r2 |-> TRUE]
    IN  IF SeedPresent(init_image_b64)
        THEN Update(base, [source_image |-> init_image_b64[1]])
        ELSE base

\* what the provider can answer to one submission request
SubmitStatuses == {Accepted, 200, 500}
SubmitBodies == {[id |-> "abc123"], [id |-> "job2", kudos |-> 10],
                 [id |-> "", message |-> "m"], [message |-> "m"]}
SubmitOutcomes ==
    {[kind |-> "transport"]}
    \cup {[kind |-> "response", status |-> s, body |-> b] :
            s \in SubmitStatuses, b \in SubmitBodies}

\* the retry decision of both failure branches: if attempt == 0
RetryAlways(a) == TRUE
RetryNever(a) == FALSE
ShouldRetry(a) == a = 0

\* the arguments callers pass
SeedImages == {None, Some(<<>>), Some(<<"Q", "Q", "=", "=">>)}
CallerDicts ==
    {Update(Update(a, b), c) :
        a \in {EmptyDict, [steps |-> 20]},
        b \in {EmptyDict, [denoising_strength |-> 60], [denoising_strength |-> 0]},
        c \in {EmptyDict, [karras |-> TRUE]}}
CallerParams == {None} \cup {Some(d) : d \in CallerDicts}
SubmitArgs ==
    [prompt : {"portrait"}, model : {"stable_diffusion"},
     init_image_b64 : SeedImages, params : CallerParams]

\* lines 25-55: build the payload, enter the loop
submit_horde_job_build ==
    /\ s_pc = "build"
    /\ payload' = BuildPayload(s_args.prompt, s_args.model,
                               s_args.init_image_b64, s_args.params)
    /\ attempt' = 0
    /\ s_pc' = "post"
    /\ UNCHANGED <<c_vars, now, log, s_args, s_ret, s_err, p_vars, b_vars, g_vars, a_vars>>

\* line 62: response.json() of an answer whose body is JSON; an answer says so
\* with json |-> FALSE when its body is not
Parses(o) == Get(o, "json", TRUE)
\* line 75: whether the error response.json() raises for such a body is a
\* RequestException (requests 2.27 and later) or a plain ValueError (before)
JsonErrorIsRequestException(o) == Get(o, "caught", TRUE)

\* lines 58-79: one pass of the loop body up to return, raise or sleep, against a
\* provider that answers with one of the given outcomes
submit_post(outcomes) ==
    /\ s_pc = "post"
    /\ attempt < MaxAttempts
    /\ \E o \in outcomes :
        /\ log' = Append(log, [op |-> "POST", payload |-> payload, outcome |-> o])
        /\ IF o.kind = "response" /\ o.status = Accepted /\ Parses(o)
           THEN IF Get(o.body, "id", "") # ""
                THEN /\ s_ret' = Some(<<o.body.id, o.body>>)
                     /\ s_err' = s_err
                     /\ s_pc' = "returned"
                ELSE /\ s_err' = "No job ID in response"
                     /\ s_pc' = "raised"
                     /\ s_ret' = s_ret
           ELSE IF o.kind = "response" /\ o.status = Accepted
                   /\ ~JsonErrorIsRequestException(o)
           THEN /\ s_err' = "JSONDecodeError"
                /\ s_pc' = "raised"
                /\ s_ret' = s_ret
           ELSE IF ShouldRetry(attempt)
                THEN /\ s_pc' = "sleep"
                     /\ UNCHANGED <<s_ret, s_err>>
                ELSE /\ s_err' = IF o.kind = "response" /\ o.status # Accepted
                                 THEN "Submission failed" ELSE "Network error"
                     /\ s_pc' = "raised"
                     /\ s_ret' = s_ret
    /\ UNCHANGED <<c_vars, now, s_args, payload, attempt, p_vars, b_vars, g_vars, a_vars>>

submit_horde_job_post == submit_post(SubmitOutcomes)

\* lines 71-72 and 77-78: time.sleep(2); continue (line 81 once range(2) is used up)
submit_horde_job_sleep ==
    /\ s_pc = "sleep"
    /\ now' = now + BackoffDelay
    /\ log' = Append(log, [op |-> "SLEEP", secs |-> BackoffDelay])
    /\ attempt' = attempt + 1
    /\ IF attempt + 1 < MaxAttempts
       THEN /\ s_pc' = "post"
            /\ s_err' = s_err
       ELSE /\ s_pc' = "raised"
            /\ s_err' = "Max retries exceeded"
    /\ UNCHANGED <<c_vars, s_args, payload, s_ret, p_vars, b_vars, g_vars, a_vars>>

submit_horde_job ==
    \/ submit_horde_job_build
    \/ submit_horde_job_post
    \/ submit_horde_job_sleep

\* The provider's side of a submission.  A request that reached the provider may
\* have created a job there whether or not the client got the answer: created says
\* so.  A transport error is a request that was never delivered (created FALSE) or
\* an answer that was lost or came after the request timeout (created TRUE).  A 202
\* answer can carry a JSON body with or without an id, or a body that is not JSON.
ProviderSubmitOutcomes ==
    {[kind |-> "transport", created |-> c] : c \in BOOLEAN}
    \cup {[kind |-> "response", status |-> 500, body |-> [message |-> "m"],
            created |-> FALSE]}
    \cup {[kind |-> "response", status |-> Accepted, body |-> [id |-> "abc123"],
            created |-> TRUE]}
    \cup {[kind |-> "response", status |-> Accepted, body |-> b, created |-> c] :
            b \in {[message |-> "m"], [id |-> ""]}, c \in BOOLEAN}
    \cup {[kind |-> "response", status |-> Accepted, body |-> EmptyDict, json |-> FALSE,
            caught |-> k, created |-> c] : k \in BOOLEAN, c \in BOOLEAN}

provider_submit == submit_post(ProviderSubmitOutcomes)

submit_at_provider ==
    \/ submit_horde_job_build
    \/ provider_submit
    \/ submit_horde_job_sleep

(***************************************************************************)
(* poll_horde_job                                                          *)
(***************************************************************************)
\* the timeout of one status request (requests.get(..., timeout=30))
RequestTimeout == 30
\* the status of a successful status answer
StatusOk == 200

\* bounds of the model
MaxInterval == 2
MaxTimeout == 2
MaxGens == 2

\* result references a generation record can carry
RefBare == <<"Q", "Q", "=", "=">>
RefUrl == <<"h", "t", "t", "p", ":", "/", "/", "h">>

\* one generation record: no img key, an empty img, or a reference
GenRecords == {EmptyDict, [img |-> <<>>], [img |-> RefBare], [img |-> RefUrl]}

\* the parsed body of a 200 status answer; every key is optional
StatusPayloads ==
    {Update(Update(d, p), g) :
        d \in {EmptyDict, [done |-> TRUE], [done |-> FALSE]},
        p \in {EmptyDict, [is_possible |-> TRUE], [is_possible |-> FALSE]},
        g \in {EmptyDict, [queue_position |-> 3]}
              \cup {[generations |-> gs] : gs \in SeqsUpTo(GenRecords, MaxGens)}}

\* what the provider can answer to one status query
StatusOutcomes ==
    {[kind |-> "transport"], [kind |-> "response", status |-> 404],
     [kind |-> "response", status |-> 500]}
    \cup {[kind |-> "response", status |-> StatusOk, body |-> d] : d \in StatusPayloads}

\* how long one status query can take
Latencies == {0, 1, RequestTimeout}

PollArgs ==
    [job_id : {"abc123"}, poll_interval : 1..MaxInterval, timeout : 0..MaxTimeout]

\* line 90: if time.time() - start_time > timeout
TimedOutAtLimit(t, start, timeout) == t - start >= timeout
TimedOut(t, start, timeout) == t - start > timeout

\* line 102: not data.get("is_possible", True)
ImpossibleIgnored(d) == FALSE
Impossible(d) == ~Get(d, "is_possible", TRUE)

\* line 100: data.get("done", False)
DoneOrGenerations(d) == Get(d, "done", FALSE) \/ "generations" \in DOMAIN d
IsDone(d) == Get(d, "done", FALSE)

\* line 110: [gen.get("img") for gen in generations if gen.get("img")]
RECURSIVE ImagesUnfiltered(_)
ImagesUnfiltered(gens) ==
    IF gens = <<>> THEN <<>>
    ELSE <<Get(Head(gens), "img", <<>>)>> \o ImagesUnfiltered(Tail(gens))
RECURSIVE Images(_)
Images(gens) ==
    IF gens = <<>> THEN <<>>
    ELSE LET img == Get(Head(gens), "img", <<>>)
         IN  (IF img # <<>> THEN <<img>> ELSE <<>>) \o Images(Tail(gens))

\* lines 96-97 and 124-125: a status query that failed ends the call
QueryFailureRetried(o) == [pc |-> "sleep", err |-> ""]
QueryFailureHangs(o) == [pc |-> "hung", err |-> ""]
QueryFailure(o) ==
    [pc |-> "raised",
     err |-> IF o.kind = "transport"
             THEN "Network error during polling" ELSE "Status check failed"]

\* lines 93-97: the three ways a status query can end
AnswerClass(o) ==
    IF o.kind = "transport" THEN "transport"
    ELSE IF o.status # StatusOk THEN "bad_status" ELSE "ok"

\* lines 86-90: read the clock, enter the loop; the clock moves on by one of the
\* given amounts before the loop reads it again
enter_loop(advances) ==
    /\ p_pc = "enter"
    /\ start_time' = now
    /\ \E d \in advances : now' = now + d
    /\ p_pc' = "loop"
    /\ UNCHANGED <<c_vars, log, p_args, data, latency, p_end, p_ret, p_err, s_vars, b_vars, g_vars, a_vars>>

\* the two readings taken as one instant
poll_horde_job_enter == enter_loop({0})

\* lines 90-91: the deadline check that opens every iteration
poll_horde_job_timeout ==
    /\ p_pc = "loop"
    /\ TimedOut(now, start_time, p_args.timeout)
    /\ p_err' = "TimeoutError"
    /\ p_pc' = "raised"
    /\ p_end' = now
    /\ UNCHANGED <<c_vars, now, log, p_args, start_time, data, latency, p_ret, s_vars, b_vars, g_vars, a_vars>>

\* lines 93-125 up to the sleep: one status query and what its answer leads to,
\* against a provider that answers with one of the given outcomes after one of the
\* given latencies
status_query(outcomes, latencies) ==
    /\ p_pc = "loop"
    /\ ~TimedOut(now, start_time, p_args.timeout)
    /\ \E l \in latencies, o \in outcomes :
        /\ now' = now + l
        /\ latency' = l
        /\ log' = Append(log, [op |-> "GET_STATUS", job_id |-> p_args.job_id,
                               kind |-> o.kind,
                               status |-> IF o.kind = "transport" THEN 0 ELSE o.status])
        /\ IF AnswerClass(o) # "ok"
           THEN /\ p_err' = QueryFailure(o).err
                /\ p_pc' = QueryFailure(o).pc
                /\ UNCHANGED <<data, p_ret>>
           ELSE /\ data' = Some(o.body)
                /\ IF Impossible(o.body)
                   THEN /\ p_err' = "Job marked as impossible by horde"
                        /\ p_pc' = "raised"
                        /\ p_ret' = p_ret
                   ELSE IF IsDone(o.body)
                   THEN LET generations == Get(o.body, "generations", <<>>)
                            images == Images(generations)
                        IN  IF generations = <<>>
                            THEN /\ p_err' = "Job completed but no images generated"
                                 /\ p_pc' = "raised"
                                 /\ p_ret' = p_ret
                            ELSE IF images = <<>>
                            THEN /\ p_err' = "No valid images in completed job"
                                 /\ p_pc' = "raised"
                                 /\ p_ret' = p_ret
                            ELSE /\ p_ret' = Some(images)
                                 /\ p_pc' = "returned"
                                 /\ p_err' = p_err
                   ELSE /\ p_pc' = "sleep"
                        /\ UNCHANGED <<p_ret, p_err>>
        /\ p_end' = IF p_pc' = "sleep" THEN p_end ELSE now'
    /\ UNCHANGED <<c_vars, p_args, start_time, s_vars, b_vars, g_vars, a_vars>>

poll_horde_job_query == status_query(StatusOutcomes, Latencies)

\* line 122: time.sleep(poll_interval), then the next iteration
poll_horde_job_sleep ==
    /\ p_pc = "sleep"
    /\ now' = now + p_args.poll_interval
    /\ log' = Append(log, [op |-> "SLEEP", secs |-> p_args.poll_interval])
    /\ p_pc' = "loop"
    /\ UNCHANGED <<c_vars, p_args, start_time, data, latency, p_end, p_ret, p_err, s_vars, b_vars, g_vars, a_vars>>

poll_horde_job ==
    \/ poll_horde_job_enter
    \/ poll_horde_job_timeout
    \/ poll_horde_job_query
    \/ poll_horde_job_sleep

(***************************************************************************)
(* b64_to_bytes                                                            *)
(***************************************************************************)
\* bound of the model: the longest byte string encoded
MaxBytes == 3

\* the base64 alphabet, value v at position v + 1
B64Chars ==
    <<"A", "B", "C", "D", "E", "F", "G", "H", "I", "J", "K", "L", "M", "N", "O", "P",
      "Q", "R", "S", "T", "U", "V", "W", "X", "Y", "Z", "a", "b", "c", "d", "e", "f",
      "g", "h", "i", "j", "k", "l", "m", "n", "o", "p", "q", "r", "s", "t", "u", "v",
      "w", "x", "y", "z", "0", "1", "2", "3", "4", "5", "6", "7", "8", "9", "+", "/">>
B64Char(v) == B64Chars[v + 1]
IsB64Char(c) == \E i \in 1..64 : B64Chars[i] = c
B64Value(c) == (CHOOSE i \in 1..64 : B64Chars[i] = c) - 1

\* base64.b64encode: three bytes to four characters, "=" padding at the end
RECURSIVE b64encode(_)
b64encode(bs) ==
    IF Len(bs) = 0 THEN <<>>
    ELSE IF Len(bs) = 1
    THEN <<B64Char(bs[1] \div 4), B64Char((bs[1] % 4) * 16), "=", "=">>
    ELSE IF Len(bs) = 2
    THEN <<B64Char(bs[1] \div 4), B64Char((bs[1] % 4) * 16 + bs[2] \div 16),
           B64Char((bs[2] % 16) * 4), "=">>
    ELSE <<B64Char(bs[1] \div 4), B64Char((bs[1] % 4) * 16 + bs[2] \div 16),
           B64Char((bs[2] % 16) * 4 + bs[3] \div 64), B64Char(bs[3] % 64)>>
         \o b64encode(SubSeq(bs, 4, Len(bs)))

\* base64.b64decode(s) with its default validate=False: characters outside the
\* alphabet are skipped, a complete pad ends the input, and a quad left open at
\* the end is an error.  i is the position, quad the characters of the current
\* quad already read, left their pending bits, pads the "=" seen in this quad.
RECURSIVE a2b_base64(_, _, _, _, _, _)
a2b_base64(s, i, quad, left, pads, out) ==
    IF i > Len(s)
    THEN IF quad # 0 THEN [ok |-> FALSE, bytes |-> <<>>] ELSE [ok |-> TRUE, bytes |-> out]
    ELSE IF s[i] = "="
    THEN IF quad >= 2 /\ quad + pads + 1 >= 4
         THEN [ok |-> TRUE, bytes |-> out]
         ELSE a2b_base64(s, i + 1, quad, left, IF quad >= 2 THEN pads + 1 ELSE pads, out)
    ELSE IF ~IsB64Char(s[i])
    THEN a2b_base64(s, i + 1, quad, left, pads, out)
    ELSE LET v == B64Value(s[i])
         IN  CASE quad = 0 -> a2b_base64(s, i + 1, 1, v, 0, out)
               [] quad = 1 -> a2b_base64(s, i + 1, 2, v % 16, 0,
                                         Append(out, left * 4 + v \div 16))
               [] quad = 2 -> a2b_base64(s, i + 1, 3, v % 4, 0,
                                         Append(out, left * 16 + v \div 4))
               [] quad = 3 -> a2b_base64(s, i + 1, 0, 0, 0,
                                         Append(out, left * 64 + v))
b64decode(s) == a2b_base64(s, 1, 0, 0, 0, <<>>)

HttpPrefix == <<"h", "t", "t", "p">>
DataPrefix == <<"d", "a", "t", "a", ":">>

\* line 130: b64_str.startswith("http")
IsHttpRef(s) == StartsWith(s, HttpPrefix)

\* requests.get sends only to a URL with an http:// or https:// scheme; any other
\* string raises MissingSchema or InvalidSchema before anything is sent
HasHttpScheme(s) ==
    \/ StartsWith(s, HttpPrefix \o <<":", "/", "/">>)
    \/ StartsWith(s, HttpPrefix \o <<"s", ":", "/", "/">>)

\* line 132: response.status_code == 200
DownloadOkAny2xx(status) == status >= 200 /\ status < 300
DownloadOk(status) == status = StatusOk

\* str.split(",", 1): the text before and after the first comma; one part if none
FirstComma(s) == IF \E i \in 1..Len(s) : s[i] = ","
                 THEN CHOOSE i \in 1..Len(s) : s[i] = "," /\ \A j \in 1..(i - 1) : s[j] # ","
                 ELSE 0
SplitOnce(s) ==
    IF FirstComma(s) = 0 THEN <<s>>
    ELSE <<SubSeq(s, 1, FirstComma(s) - 1), SubSeq(s, FirstComma(s) + 1, Len(s))>>

\* line 138: b64_str.split(",", 1)[1]
DataUriHeader(s) == Some(SplitOnce(s)[1])
DataUriPayload(s) == IF Len(SplitOnce(s)) < 2 THEN None ELSE Some(SplitOnce(s)[2])

\* what a server can answer to the download of a reference
GetOutcomes ==
    {[kind |-> "transport"]}
    \cup {[kind |-> "response", status |-> st, content |-> c] :
            st \in {StatusOk, 204, 404, 500}, c \in {<<>>, <<137, 80>>}}

\* the byte strings references are made of; 134, 219, 105 encode to "http"
ByteVals == {0, 105, 134, 219, 255}
ByteStrings == SeqsUpTo(ByteVals, MaxBytes)
DataHeaders == {<<>>, <<"i", "m", "a", "g", "e", "/", "p", "n", "g", ";",
                        "b", "a", "s", "e", "6", "4">>}
Urls == {HttpPrefix \o <<":", "/", "/", "h">>, HttpPrefix \o <<"s", ":", "/", "/", "h">>}
Malformed == {<<"Q">>, <<"Q", "Q">>, <<"Q", "Q", "=">>, DataPrefix \o <<"Q", "Q", "=", "=">>}

\* a reference together with how it was made
References ==
    {[form |-> "bare", bytes |-> bs, str |-> b64encode(bs)] : bs \in ByteStrings}
    \cup {[form |-> "data_uri", bytes |-> bs,
           str |-> DataPrefix \o h \o <<",">> \o b64encode(bs)] :
            bs \in ByteStrings, h \in DataHeaders}
    \cup {[form |-> "url", bytes |-> <<>>, str |-> u] : u \in Urls}
    \cup {[form |-> "malformed", bytes |-> <<>>, str |-> m] : m \in Malformed}

\* lines 130-135: the reference is fetched
b64_to_bytes_download ==
    /\ b_pc = "call"
    /\ IsHttpRef(b64_str)
    /\ IF ~HasHttpScheme(b64_str)
       THEN /\ b_err' = "MissingSchema"
            /\ b_pc' = "raised"
            /\ UNCHANGED <<log, b_ret>>
       ELSE \E o \in GetOutcomes :
            /\ log' = Append(log, [op |-> "GET", url |-> b64_str, outcome |-> o])
            /\ IF o.kind = "transport"
               THEN /\ b_err' = "RequestException"
                    /\ b_pc' = "raised"
                    /\ b_ret' = b_ret
               ELSE IF DownloadOk(o.status)
               THEN /\ b_ret' = Some(o.content)
                    /\ b_pc' = "returned"
                    /\ b_err' = b_err
               ELSE /\ b_err' = "Failed to download image"
                    /\ b_pc' = "raised"
                    /\ b_ret' = b_ret
    /\ UNCHANGED <<c_vars, now, b64_str, b_origin, s_vars, p_vars, g_vars, a_vars>>

\* lines 137-140: the reference is decoded
b64_to_bytes_decode ==
    /\ b_pc = "call"
    /\ ~IsHttpRef(b64_str)
    /\ LET encoded == IF StartsWith(b64_str, DataPrefix)
                      THEN DataUriPayload(b64_str) ELSE Some(b64_str)
       IN  IF encoded = None
           THEN /\ b_err' = "IndexError"
                /\ b_pc' = "raised"
                /\ b_ret' = b_ret
           ELSE IF b64decode(encoded[1]).ok
           THEN /\ b_ret' = Some(b64decode(encoded[1]).bytes)
                /\ b_pc' = "returned"
                /\ b_err' = b_err
           ELSE /\ b_err' = "binascii.Error"
                /\ b_pc' = "raised"
                /\ b_ret' = b_ret
    /\ UNCHANGED <<c_vars, now, log, b64_str, b_origin, s_vars, p_vars, g_vars, a_vars>>

b64_to_bytes ==
    \/ b64_to_bytes_download
    \/ b64_to_bytes_decode

(***************************************************************************)
(* call_gemini_multimodal (src/src/clients/gemini_client.py)               *)
(*                                                                         *)
(* The text of a reply is a sequence of tokens: white space, the opening   *)
(* opening fence, the closing fence, one JSON document, or text that is    *)
(* not JSON.  A parsed JSON document is a record tagged with its type.     *)
(***************************************************************************)
\* time.sleep(1) between the two attempts
GeminiDelay == 1
\* range(2): the number of attempts
GeminiAttempts == 2
\* the status of a successful answer
GeminiOk == 200
\* the first status of the server-error range
ServerError == 500

DETECT_PROMPT == "Identify the dominant facial emotion"
required_keys == <<"dominant_emotion", "confidence", "all_scores">>

Ws == [t |-> "ws"]
\* the markdown fence that opens a json block, and the fence that closes it
FenceJson == [t |-> "fence_json"]
Fence == [t |-> "fence"]
Junk == [t |-> "text"]
Json(v) == [t |-> "json", v |-> v]

\* JSON documents a reply can hold
JsonObjects ==
    {[type |-> "object", fields |-> Update(Update(Update(a, b), c), d)] :
        a \in {EmptyDict, [dominant_emotion |-> "happy"]},
        b \in {EmptyDict, [confidence |-> 42], [confidence |-> 50], [confidence |-> 75]},
        c \in {EmptyDict, [all_scores |-> [happy |-> 42, sad |-> 10]]},
        d \in {EmptyDict, [note |-> "n"]}}
JsonOthers ==
    {[type |-> "array", items |-> <<>>],
     [type |-> "array", items |-> required_keys],
     [type |-> "string", words |-> <<"happy">>],
     [type |-> "string", words |-> required_keys],
     [type |-> "number", n |-> 42],
     [type |-> "null"]}
JsonValues == JsonObjects \cup JsonOthers

\* the texts a reply can carry
ReplyTexts ==
    {pre \o mid \o post :
        pre \in {<<>>, <<FenceJson>>, <<Ws, FenceJson, Ws>>, <<Fence>>},
        mid \in {<<>>, <<Junk>>} \cup {<<Json(v)>> : v \in JsonValues},
        post \in {<<>>, <<Fence>>, <<Ws, Fence, Ws>>}}

TextBody(t) == [candidates |-> <<[content |-> [parts |-> <<[text |-> t]>>]]>>]

\* the parsed body of a 200 answer (json |-> FALSE: the body is not JSON)
GeminiBodies ==
    {[json |-> FALSE]}
    \cup {[json |-> TRUE, data |-> d] :
            d \in {EmptyDict, [candidates |-> <<>>], [candidates |-> <<EmptyDict>>],
                   [candidates |-> <<[content |-> EmptyDict]>>],
                   [candidates |-> <<[content |-> [parts |-> <<>>]]>>],
                   [candidates |-> <<[content |-> [parts |-> <<EmptyDict>>]]>>],
                   [candidates |-> <<[content |-> [parts |-> <<[text |-> <<Json([type |-> "null"])>>]>>]],
                                     [content |-> [parts |-> <<[text |-> <<Junk>>]>>]]>>]}
              \cup {TextBody(t) : t \in ReplyTexts}}

\* what the classifier service can answer to one request
GeminiOutcomes ==
    {[kind |-> "transport"]}
    \cup {[kind |-> "response", status |-> st] : st \in {400, 429, ServerError, 503}}
    \cup {[kind |-> "response", status |-> GeminiOk, body |-> b] : b \in GeminiBodies}

\* str.strip(): white space is removed at both ends
RECURSIVE LStrip(_)
LStrip(t) == IF t # <<>> /\ Head(t) = Ws THEN LStrip(Tail(t)) ELSE t
RECURSIVE RStrip(_)
RStrip(t) == IF t # <<>> /\ t[Len(t)] = Ws THEN RStrip(SubSeq(t, 1, Len(t) - 1)) ELSE t
Strip(t) == RStrip(LStrip(t))

\* lines 91-96: strip, drop a leading fence, drop a trailing fence, strip
CleanText(text_content) ==
    LET stripped == Strip(text_content)
        opened == IF stripped # <<>> /\ Head(stripped) = FenceJson
                  THEN Tail(stripped) ELSE stripped
        closed == IF opened # <<>> /\ opened[Len(opened)] = Fence
                  THEN SubSeq(opened, 1, Len(opened) - 1) ELSE opened
    IN  Strip(closed)

\* json.loads: exactly one JSON document, white space around it allowed
JsonLoads(t) ==
    IF Len(Strip(t)) = 1 /\ Strip(t)[1].t = "json"
    THEN Some(Strip(t)[1].v)
    ELSE None

\* key in emotion_data, by the type of emotion_data: a key of an object, an
\* item of an array, a substring of a string; a number or null is not iterable
KeyTestRaises(v) == v.type \in {"number", "null"}
KeyIn(key, v) ==
    CASE v.type = "object" -> key \in DOMAIN v.fields
      [] v.type = "array" -> \E i \in 1..Len(v.items) : v.items[i] = key
      [] v.type = "string" -> \E i \in 1..Len(v.words) : v.words[i] = key
      [] OTHER -> FALSE

\* line 101: all(key in emotion_data for key in required_keys)
HasRequiredKeys(v) == \A i \in 1..Len(required_keys) : KeyIn(required_keys[i], v)

Returned(v) == [ok |-> TRUE, value |-> v, err |-> ""]
Raised(e) == [ok |-> FALSE, value |-> [type |-> "null"], err |-> e]

\* lines 80-110: _handle_response
handle_response(body, mode) ==
    IF ~body.json THEN Raised("Invalid JSON response")
    ELSE LET candidates == Get(body.data, "candidates", <<>>)
         IN  IF Len(candidates) = 0
             THEN Raised("Invalid response format from Gemini API")
             ELSE LET candidate == candidates[1]
                      content == Get(candidate, "content", EmptyDict)
                  IN  IF "content" \notin DOMAIN candidate \/ "parts" \notin DOMAIN content
                      THEN Raised("Invalid response format from Gemini API")
                      ELSE IF Len(content.parts) = 0 THEN Raised("IndexError")
                      ELSE IF mode # "detect"
                      THEN Raised("Invalid response format from Gemini API")
                      ELSE LET text_content == Get(content.parts[1], "text", <<>>)
                               emotion_data == JsonLoads(CleanText(text_content))
                           IN  IF emotion_data = None
                               THEN Raised("Could not parse JSON from response")
                               ELSE IF KeyTestRaises(emotion_data[1])
                               THEN Raised("TypeError")
                               ELSE IF ~HasRequiredKeys(emotion_data[1])
                               THEN Raised("Invalid detect response: missing required keys")
                               ELSE Returned(emotion_data[1])

\* lines 65 and 71-72: which failed attempts are followed by another one
RetryAnyFailure(o, a) == a = 0
ShouldRetryGemini(o, a) ==
    /\ a = 0
    /\ \/ o.kind = "transport"
       \/ o.status >= ServerError

\* line 69 and line 75: the error of an attempt that is not retried
AttemptError(o) == IF o.kind = "transport" THEN "Network error" ELSE "API request failed"

ImageBytes == {None, Some(<<>>), Some(<<137, 80>>)}
GeminiArgs ==
    [prompt : {DETECT_PROMPT}, image_bytes : ImageBytes, mode : {"detect", "edit"},
     extra_opts : {None, Some([generationConfig |-> "c"])},
     api_key : {None, Some(""), Some("k")}]

\* if image_bytes: (None and the empty byte string are both false)
GeminiParts(prompt, image_bytes) ==
    <<[text |-> prompt]>>
    \o IF image_bytes # None /\ image_bytes[1] # <<>>
       THEN <<[inline_data |-> [mime_type |-> "image/jpeg",
                                data |-> b64encode(image_bytes[1])]]>>
       ELSE <<>>

\* lines 36-56: read the key, build the request body, enter the loop
call_gemini_multimodal_build ==
    /\ g_pc = "build"
    /\ IF g_args.api_key = None \/ g_args.api_key = Some("")
       THEN /\ g_err' = "GEMINI_API_KEY environment variable not set"
            /\ g_pc' = "raised"
            /\ UNCHANGED <<g_payload, g_attempt>>
       ELSE /\ g_payload' =
                  LET base == [contents |-> <<[parts |-> GeminiParts(g_args.prompt,
                                                                     g_args.image_bytes)]>>]
                  IN  IF g_args.extra_opts # None
                      THEN Update(base, g_args.extra_opts[1]) ELSE base
            /\ g_attempt' = 0
            /\ g_pc' = "post"
            /\ g_err' = g_err
    /\ UNCHANGED <<c_vars, now, log, g_args, g_ret, s_vars, p_vars, b_vars, a_vars>>

\* lines 59-75: one pass of the loop body up to return, raise or sleep
call_gemini_multimodal_post ==
    /\ g_pc = "post"
    /\ g_attempt < GeminiAttempts
    /\ \E o \in GeminiOutcomes :
        /\ log' = Append(log, [op |-> "GEMINI_POST", payload |-> g_payload, outcome |-> o])
        /\ IF o.kind = "response" /\ o.status = GeminiOk
           THEN LET r == handle_response(o.body, g_args.mode)
                IN  IF r.ok
                    THEN /\ g_ret' = Some(r.value)
                         /\ g_pc' = "returned"
                         /\ g_err' = g_err
                    ELSE /\ g_err' = r.err
                         /\ g_pc' = "raised"
                         /\ g_ret' = g_ret
           ELSE IF ShouldRetryGemini(o, g_attempt)
                THEN /\ g_pc' = "sleep"
                     /\ UNCHANGED <<g_ret, g_err>>
                ELSE /\ g_err' = AttemptError(o)
                     /\ g_pc' = "raised"
                     /\ g_ret' = g_ret
    /\ UNCHANGED <<c_vars, now, g_args, g_payload, g_attempt, s_vars, p_vars, b_vars, a_vars>>

\* lines 66-67 and 73-74: time.sleep(1); continue (line 77 once range(2) is used up)
call_gemini_multimodal_sleep ==
    /\ g_pc = "sleep"
    /\ now' = now + GeminiDelay
    /\ log' = Append(log, [op |-> "SLEEP", secs |-> GeminiDelay])
    /\ g_attempt' = g_attempt + 1
    /\ IF g_attempt + 1 < GeminiAttempts
       THEN /\ g_pc' = "post"
            /\ g_err' = g_err
       ELSE /\ g_pc' = "raised"
            /\ g_err' = "Max retries exceeded"
    /\ UNCHANGED <<c_vars, g_args, g_payload, g_ret, s_vars, p_vars, b_vars, a_vars>>

call_gemini_multimodal ==
    \/ call_gemini_multimodal_build
    \/ call_gemini_multimodal_post
    \/ call_gemini_multimodal_sleep

SubmitIdle ==
    /\ s_pc = "idle"
    /\ s_args = [prompt |-> "", model |-> "", init_image_b64 |-> None, params |-> None]
    /\ payload = EmptyDict
    /\ attempt = 0
    /\ s_ret = None
    /\ s_err = ""

PollIdle ==
    /\ p_pc = "idle"
    /\ p_args = [job_id |-> "", poll_interval |-> 0, timeout |-> 0]
    /\ start_time = 0
    /\ data = None
    /\ latency = 0
    /\ p_end = 0
    /\ p_ret = None
    /\ p_err = ""

MaterializeIdle ==
    /\ b_pc = "idle"
    /\ b64_str = <<>>
    /\ b_origin = [form |-> "none", bytes |-> <<>>, str |-> <<>>]
    /\ b_ret = None
    /\ b_err = ""

(***************************************************************************)
(* Python floats (src/src/api/main.py, lines 98 and 110)                   *)
(*                                                                         *)
(* A float the code computes with is a binary floating-point number        *)
(* s * m * 2^e with a significand m of FloatBits bits (the code's floats   *)
(* carry 53), zero as m = 0, and every operation rounds its exact result   *)
(* to the nearest such number, ties to the even significand.  NaN is the   *)
(* record with s = 0.                                                      *)
(***************************************************************************)
\* bounds of the model: the significand's width and the smallest binade
FloatBits == 4
MinExp == 6

Zero == [s |-> 1, m |-> 0, e |-> 0]
NaN == [s |-> 0, m |-> 0, e |-> 0]

\* the number of binary digits of n > 0
BitLen(n) == CHOOSE k \in 1..31 : 2^(k - 1) <= n /\ n < 2^k

\* n * 2^e for an integer n > 0, rounded to FloatBits digits
Round(n, e) ==
    IF BitLen(n) <= FloatBits
    THEN [s |-> 1, m |-> n * 2^(FloatBits - BitLen(n)), e |-> e - (FloatBits - BitLen(n))]
    ELSE LET k == BitLen(n) - FloatBits
             q == n \div 2^k
             r == n % 2^k
             up == r > 2^(k - 1) \/ (r = 2^(k - 1) /\ q % 2 = 1)
             q2 == IF up THEN q + 1 ELSE q
         IN  IF q2 = 2^FloatBits
             THEN [s |-> 1, m |-> 2^(FloatBits - 1), e |-> e + k + 1]
             ELSE [s |-> 1, m |-> q2, e |-> e + k]

\* a decimal literal of the source, given in hundredths (0.2 is 20): the nearest float
Literal(h) ==
    IF h = 0 THEN Zero
    ELSE LET k == CHOOSE j \in 0..20 : 2^(FloatBits - 1) * 100 <= h * 2^j
                                       /\ h * 2^j < 2^FloatBits * 100
             q == (h * 2^k) \div 100
             r == (h * 2^k) % 100
             up == 2 * r > 100 \/ (2 * r = 100 /\ q % 2 = 1)
             q2 == IF up THEN q + 1 ELSE q
         IN  IF q2 = 2^FloatBits
             THEN [s |-> 1, m |-> 2^(FloatBits - 1), e |-> 1 - k]
             ELSE [s |-> 1, m |-> q2, e |-> 0 - k]

\* a * b
FMul(a, b) ==
    IF a.s = 0 \/ b.s = 0 THEN NaN
    ELSE IF a.m = 0 \/ b.m = 0 THEN Zero
    ELSE [Round(a.m * b.m, a.e + b.e) EXCEPT !.s = a.s * b.s]

\* a + b for operands that are not negative
FAdd(a, b) ==
    IF a.s = 0 \/ b.s = 0 THEN NaN
    ELSE IF a.m = 0 THEN b
    ELSE IF b.m = 0 THEN a
    ELSE LET e0 == IF a.e < b.e THEN a.e ELSE b.e
         IN  Round(a.m * 2^(a.e - e0) + b.m * 2^(b.e - e0), e0)

\* a < b and a <= b; every comparison with NaN is false
FLt(a, b) ==
    /\ a.s # 0 /\ b.s # 0
    /\ IF a.m = 0 THEN b.m # 0 /\ b.s = 1
       ELSE IF b.m = 0 THEN a.s = -1
       ELSE IF a.s # b.s THEN a.s = -1
       ELSE IF a.s = 1 THEN a.e < b.e \/ (a.e = b.e /\ a.m < b.m)
       ELSE b.e < a.e \/ (a.e = b.e /\ b.m < a.m)
FLe(a, b) == a.s # 0 /\ b.s # 0 /\ (FLt(a, b) \/ (a.m = b.m /\ (a.m = 0 \/ (a.e = b.e /\ a.s = b.s))))

\* the floats of magnitude 2^(-MinExp) up to (not including) 4, and zero
PositiveFloats ==
    {[s |-> 1, m |-> m, e |-> e] :
        m \in 2^(FloatBits - 1)..(2^FloatBits - 1),
        e \in (1 - MinExp - FloatBits)..(2 - FloatBits)}
Floats ==
    PositiveFloats \cup {Zero, NaN}
    \cup {[f EXCEPT !.s = -1] : f \in {g \in PositiveFloats : g.e >= 0 - FloatBits}}

(***************************************************************************)
(* The endpoints (src/src/api/main.py)                                     *)
(*                                                                         *)
(* A prompt is the sequence of the pieces its f-string joins.  A content   *)
(* type is the pair of its part up to the slash and the rest.  An upload   *)
(* is its content type, its file name, its size in bytes and its bytes;    *)
(* an upload above the size limit keeps its size only and is never read    *)
(* further.  The detail of an error response is the sequence of the pieces *)
(* of its text.                                                            *)
(***************************************************************************)
\* 5 * 1024 * 1024
MAX_FILE_SIZE == 5242880
\* poll_horde_job(job_id, timeout=300) with the default poll_interval=3.0
PollTimeout == 300
PollInterval == 3
\* result["confidence"] < 0.5, in hundredths
LowConfidence == 50
\* params["denoising_strength"] = 0.6, in hundredths
SeedDenoising == 60

EMOTION_PHRASES ==
    [happy |-> "gentle smile, eyes slightly crinkled, joyful expression",
     sad |-> "downturned mouth, drooping eyes, melancholy expression",
     angry |-> "furrowed brow, intense gaze, stern expression",
     surprised |-> "raised eyebrows, wide eyes, open mouth",
     neutral |-> "calm expression, relaxed features, peaceful look",
     disgust |-> "wrinkled nose, slight frown, disapproving look",
     fear |-> "wide eyes, tense features, worried expression"]

style_phrases ==
    [photorealistic |-> "photorealistic, high detail, professional photography",
     cartoon |-> "cartoon style, animated, colorful, digital art",
     oil |-> "oil painting style, artistic, painterly, classical art"]

\* str.lower() on the words requests carry
Lower(w) ==
    CASE w = "Happy" -> "happy"
      [] w = "SAD" -> "sad"
      [] w = "Cartoon" -> "cartoon"
      [] w = "OIL" -> "oil"
      [] OTHER -> w

\* line 157: style_phrases.get(style.lower(), "photorealistic, high detail")
StyleDesc(style) == Get(style_phrases, Lower(style), "photorealistic, high detail")

\* line 108
EditPrompt(target_emotion) ==
    <<"same person, ", EMOTION_PHRASES[Lower(target_emotion)], ", photorealistic portrait">>

\* lines 175 and 178
GeneratePrompt(target_emotion, style, seeded) ==
    <<IF seeded THEN "portrait of the same person, " ELSE "portrait of a person showing ",
      EMOTION_PHRASES[Lower(target_emotion)], ", ", StyleDesc(style)>>

\* line 98: 0.0 <= intensity <= 1.0
IntensityUnchecked(intensity) == intensity.s # 0
IntensityInRange(intensity) == FLe(Literal(0), intensity) /\ FLe(intensity, Literal(100))

\* line 110: 0.2 + (intensity * 0.6)
DenoisingLegacy(intensity) == FAdd(Literal(30), FMul(intensity, Literal(40)))
DenoisingStrength(intensity) == FAdd(Literal(20), FMul(intensity, Literal(60)))

\* lines 111-118
EditParams(intensity) ==
    [steps |-> 20, width |-> 512, height |-> 512,
     denoising_strength |-> DenoisingStrength(intensity),
     cfg_scale |-> 750, sampler_name |-> "k_euler"]

\* lines 161-167 and 176
GenerateParamsAlwaysSeeded(seeded) ==
    [steps |-> 25, width |-> 512, height |-> 512, cfg_scale |-> 750,
     sampler_name |-> "k_euler", denoising_strength |-> SeedDenoising]
GenerateParams(seeded) ==
    LET params == [steps |-> 25, width |-> 512, height |-> 512, cfg_scale |-> 750,
                   sampler_name |-> "k_euler"]
    IN  IF seeded THEN Update(params, [denoising_strength |-> SeedDenoising]) ELSE params

\* image.content_type.startswith("image/")
IsImageType(content_type) == content_type[1][1] = "image/"

\* line 49: len(content) > MAX_FILE_SIZE
TooLarge(upload) == upload.size > MAX_FILE_SIZE

\* the responses of an endpoint
HttpErrorAsOk(status, detail) ==
    [status |-> 200, detail |-> detail, media_type |-> "application/json",
     content |-> None, body |-> EmptyDict, headers |-> EmptyDict]
HttpError(status, detail) ==
    [status |-> status, detail |-> detail, media_type |-> "application/json",
     content |-> None, body |-> EmptyDict, headers |-> EmptyDict]
ImageResponseJpeg(bytes, headers) ==
    [status |-> 200, detail |-> <<>>, media_type |-> "image/jpeg",
     content |-> Some(bytes), body |-> EmptyDict, headers |-> headers]
ImageResponse(bytes, headers) ==
    [status |-> 200, detail |-> <<>>, media_type |-> "image/png",
     content |-> Some(bytes), body |-> EmptyDict, headers |-> headers]
JsonResponse(body) ==
    [status |-> 200, detail |-> <<>>, media_type |-> "application/json",
     content |-> None, body |-> body, headers |-> EmptyDict]

\* the uploads requests carry
Png == Some(<<"image/", "png">>)
Upload(content_type, filename, size, bytes) ==
    [content_type |-> content_type, filename |-> filename, size |-> size, bytes |-> bytes]
Uploads ==
    {Upload(Png, "face.png", 2, <<137, 80>>),
     Upload(Some(<<"image/", "jpeg">>), "face.jpg", 3, <<134, 219, 105>>),
     Upload(Png, "empty.png", 0, <<>>),
     Upload(Png, "", 2, <<137, 80>>),
     Upload(Some(<<"text/", "plain">>), "notes.txt", 2, <<104, 105>>),
     Upload(None, "face.png", 2, <<137, 80>>),
     Upload(Png, "large.png", MAX_FILE_SIZE + 1, <<>>)}

Emotions ==
    {"happy", "sad", "angry", "surprised", "neutral", "disgust", "fear",
     "Happy", "SAD", "joyful", ""}
Styles == {"photorealistic", "cartoon", "oil", "Cartoon", "OIL", "watercolor", ""}

EditRequest(image, target_emotion, intensity) ==
    [endpoint |-> "edit", image |-> Some(image), target_emotion |-> target_emotion,
     intensity |-> intensity, style |-> ""]
GenerateRequest(image, target_emotion, style) ==
    [endpoint |-> "generate", image |-> image, target_emotion |-> target_emotion,
     intensity |-> Zero, style |-> style]
DetectRequest(image) ==
    [endpoint |-> "detect", image |-> Some(image), target_emotion |-> "",
     intensity |-> Zero, style |-> ""]

\* lines 94-120: validate the request, build prompt and parameters, call submit
edit_image_prepare ==
    /\ a_pc = "start"
    /\ request.endpoint = "edit"
    /\ LET image == request.image[1]
           rejection ==
               IF image.content_type = None
               THEN Some(HttpError(500, <<"Error editing image: ", "AttributeError">>))
               ELSE IF ~IsImageType(image.content_type)
               THEN Some(HttpError(400, <<"File must be an image">>))
               ELSE IF ~IntensityInRange(request.intensity)
               THEN Some(HttpError(400, <<"Intensity must be between 0.0 and 1.0">>))
               ELSE IF Lower(request.target_emotion) \notin DOMAIN EMOTION_PHRASES
               THEN Some(HttpError(400, <<"Unsupported emotion">>))
               ELSE IF TooLarge(image)
               THEN Some(HttpError(413, <<"File size exceeds 5MB limit">>))
               ELSE None
       IN  IF rejection # None
           THEN /\ response' = rejection
                /\ a_pc' = "done"
                /\ UNCHANGED s_vars
           ELSE /\ s_args' = [prompt |-> EditPrompt(request.target_emotion),
                              model |-> "stable_diffusion",
                              init_image_b64 |-> Some(b64encode(image.bytes)),
                              params |-> Some(EditParams(request.intensity))]
                /\ s_pc' = "build"
                /\ a_pc' = "submit"
                /\ UNCHANGED <<response, payload, attempt, s_ret, s_err>>
    /\ UNCHANGED <<c_vars, now, log, request, provider, p_vars, b_vars, g_vars>>

\* lines 147-180: validate the request, build prompt and parameters, call submit
generate_image_prepare ==
    /\ a_pc = "start"
    /\ request.endpoint = "generate"
    /\ LET seeded == request.image # None /\ request.image[1].filename # ""
           rejection ==
               IF Lower(request.target_emotion) \notin DOMAIN EMOTION_PHRASES
               THEN Some(HttpError(400, <<"Unsupported emotion">>))
               ELSE IF ~seeded THEN None
               ELSE IF request.image[1].content_type = None
               THEN Some(HttpError(500, <<"Error generating image: ", "AttributeError">>))
               ELSE IF ~IsImageType(request.image[1].content_type)
               THEN Some(HttpError(400, <<"Seed file must be an image">>))
               ELSE IF TooLarge(request.image[1])
               THEN Some(HttpError(413, <<"File size exceeds 5MB limit">>))
               ELSE None
       IN  IF rejection # None
           THEN /\ response' = rejection
                /\ a_pc' = "done"
                /\ UNCHANGED s_vars
           ELSE /\ s_args' = [prompt |-> GeneratePrompt(request.target_emotion,
                                                        request.style, seeded),
                              model |-> "stable_diffusion",
                              init_image_b64 |-> IF seeded
                                                 THEN Some(b64encode(request.image[1].bytes))
                                                 ELSE None,
                              params |-> Some(GenerateParams(seeded))]
                /\ s_pc' = "build"
                /\ a_pc' = "submit"
                /\ UNCHANGED <<response, payload, attempt, s_ret, s_err>>
    /\ UNCHANGED <<c_vars, now, log, request, provider, p_vars, b_vars, g_vars>>

\* line 78: result["confidence"] < 0.5
IsLowConfidenceInclusive(confidence) == confidence <= LowConfidence
IsLowConfidence(confidence) == confidence < LowConfidence

\* lines 63-68: validate the upload, call the classifier
detect_emotion_prepare ==
    /\ a_pc = "start"
    /\ request.endpoint = "detect"
    /\ LET image == request.image[1]
           rejection ==
               IF image.content_type = None
               THEN Some(HttpError(500, <<"Error processing image: ", "AttributeError">>))
               ELSE IF ~IsImageType(image.content_type)
               THEN Some(HttpError(400, <<"File must be an image">>))
               ELSE IF TooLarge(image)
               THEN Some(HttpError(413, <<"File size exceeds 5MB limit">>))
               ELSE None
       IN  IF rejection # None
           THEN /\ response' = rejection
                /\ a_pc' = "done"
                /\ UNCHANGED g_vars
           ELSE /\ \E key \in {None, Some("k")} :
                    g_args' = [prompt |-> DETECT_PROMPT, image_bytes |-> Some(image.bytes),
                               mode |-> "detect", extra_opts |-> None, api_key |-> key]
                /\ g_pc' = "build"
                /\ a_pc' = "classify"
                /\ UNCHANGED <<response, g_payload, g_attempt, g_ret, g_err>>
    /\ UNCHANGED <<c_vars, now, log, request, provider, s_vars, p_vars, b_vars>>

\* lines 68-84: the classifier's result becomes the response
detect_emotion_respond ==
    /\ a_pc = "classify"
    /\ g_pc \in {"returned", "raised"}
    /\ response' =
          IF g_pc = "raised"
          THEN Some(HttpError(500, <<"Error processing image: ", g_err>>))
          ELSE LET result == g_ret[1]
               IN  IF ~HasRequiredKeys(result)
                   THEN Some(HttpError(500, <<"Invalid response from emotion detection service">>))
                   ELSE IF result.type # "object"
                   THEN Some(HttpError(500, <<"Error processing image: ", "TypeError">>))
                   ELSE Some(JsonResponse(
                            [dominant_emotion |-> result.fields.dominant_emotion,
                             confidence |-> result.fields.confidence,
                             all_scores |-> result.fields.all_scores,
                             low_confidence |-> IsLowConfidence(result.fields.confidence)]))
    /\ a_pc' = "done"
    /\ UNCHANGED <<c_vars, now, log, request, provider, s_vars, p_vars, b_vars, g_vars>>

\* job_id, _ = submit_horde_job(...): the first component of the returned pair
FixedJobId(ret) == "job0"
ReturnedJobId(ret) == ret[1]

\* images_b64[0]
LastImage(images) == images[Len(images)]
FirstImage(images) == images[1]

\* the text before str(e) in the detail of a failure (lines 137 and 202)
ErrorPrefix == IF request.endpoint = "edit" THEN "Error editing image: "
                                            ELSE "Error generating image: "

\* lines 120-121 and 180-181: submit_horde_job has ended; call poll_horde_job
image_endpoint_poll ==
    /\ a_pc = "submit"
    /\ s_pc \in {"returned", "raised"}
    /\ IF s_pc = "raised"
       THEN /\ response' = Some(HttpError(500, <<ErrorPrefix, s_err>>))
            /\ a_pc' = "done"
            /\ UNCHANGED <<p_pc, p_args>>
       ELSE /\ p_args' = [job_id |-> ReturnedJobId(s_ret[1]),
                          poll_interval |-> PollInterval, timeout |-> PollTimeout]
            /\ p_pc' = "enter"
            /\ a_pc' = "poll"
            /\ response' = response
    /\ UNCHANGED <<c_vars, now, log, request, provider, start_time, data, latency, p_end, p_ret,
                   p_err, s_vars, b_vars, g_vars>>

\* lines 121-126 and 181-186: poll_horde_job has ended; call b64_to_bytes on the
\* first reference
image_endpoint_materialize ==
    /\ a_pc = "poll"
    /\ p_pc \in {"returned", "raised"}
    /\ IF p_pc = "raised"
       THEN /\ response' = Some(HttpError(500, <<ErrorPrefix, p_err>>))
            /\ a_pc' = "done"
            /\ UNCHANGED <<b_pc, b64_str, b_origin>>
       ELSE IF p_ret[1] = <<>>
       THEN /\ response' = Some(HttpError(500, <<"No images generated">>))
            /\ a_pc' = "done"
            /\ UNCHANGED <<b_pc, b64_str, b_origin>>
       ELSE /\ b64_str' = FirstImage(p_ret[1])
            /\ b_origin' = [form |-> "result", bytes |-> <<>>, str |-> FirstImage(p_ret[1])]
            /\ b_pc' = "call"
            /\ a_pc' = "materialize"
            /\ response' = response
    /\ UNCHANGED <<c_vars, now, log, request, provider, b_ret, b_err, s_vars, p_vars, g_vars>>

\* str(bool(img_b64))
SeedUsed(img_b64) == IF SeedPresent(img_b64) THEN "True" ELSE "False"

\* lines 131 and 191-196
ResponseHeaders ==
    IF request.endpoint = "edit"
    THEN [k \in {"Content-Disposition"} |-> "attachment; filename=edited_image.png"]
    ELSE [k \in {"Content-Disposition", "X-Style", "X-Target-Emotion", "X-Seed-Used"} |->
            CASE k = "Content-Disposition" -> "attachment; filename=generated_image.png"
              [] k = "X-Style" -> request.style
              [] k = "X-Target-Emotion" -> request.target_emotion
              [] k = "X-Seed-Used" -> SeedUsed(s_args.init_image_b64)]

\* lines 126-137 and 186-202: b64_to_bytes has ended; respond
image_endpoint_respond ==
    /\ a_pc = "materialize"
    /\ b_pc \in {"returned", "raised"}
    /\ response' = IF b_pc = "raised"
                   THEN Some(HttpError(500, <<ErrorPrefix, b_err>>))
                   ELSE Some(ImageResponse(b_ret[1], ResponseHeaders))
    /\ a_pc' = "done"
    /\ UNCHANGED <<c_vars, now, log, request, provider, s_vars, p_vars, b_vars, g_vars>>

\* generate_image_sync (horde_client.py lines 143-148): the same three calls
\* without an HTTP layer; the outcome is a return value or the callee's exception
SyncReturn(bytes) ==
    [status |-> 0, detail |-> <<>>, media_type |-> "", content |-> Some(bytes),
     body |-> EmptyDict, headers |-> EmptyDict]
SyncRaise(err) ==
    [status |-> 0, detail |-> <<err>>, media_type |-> "", content |-> None,
     body |-> EmptyDict, headers |-> EmptyDict]
SyncRequest(prompt, init_image_b64) ==
    [endpoint |-> "sync", image |-> None, target_emotion |-> "", intensity |-> Zero,
     style |-> "", prompt |-> prompt, init_image_b64 |-> init_image_b64]

\* line 146: submit_horde_job(prompt, model, init_image_b64)
generate_image_sync_submit ==
    /\ a_pc = "start"
    /\ request.endpoint = "sync"
    /\ s_args' = [prompt |-> request.prompt, model |-> "stable_diffusion",
                  init_image_b64 |-> request.init_image_b64, params |-> None]
    /\ s_pc' = "build"
    /\ a_pc' = "sync_submit"
    /\ UNCHANGED <<c_vars, now, log, request, response, provider, payload, attempt, s_ret, s_err,
                   p_vars, b_vars, g_vars>>

\* lines 146-147: submit_horde_job has ended; poll_horde_job(job_id, timeout=timeout)
generate_image_sync_poll ==
    /\ a_pc = "sync_submit"
    /\ s_pc \in {"returned", "raised"}
    /\ IF s_pc = "raised"
       THEN /\ response' = Some(SyncRaise(s_err))
            /\ a_pc' = "done"
            /\ UNCHANGED <<p_pc, p_args>>
       ELSE /\ p_args' = [job_id |-> ReturnedJobId(s_ret[1]),
                          poll_interval |-> PollInterval, timeout |-> PollTimeout]
            /\ p_pc' = "enter"
            /\ a_pc' = "sync_poll"
            /\ response' = response
    /\ UNCHANGED <<c_vars, now, log, request, provider, start_time, data, latency, p_end, p_ret,
                   p_err, s_vars, b_vars, g_vars>>

\* lines 147-148: poll_horde_job has ended; b64_to_bytes(images_b64[0])
generate_image_sync_materialize ==
    /\ a_pc = "sync_poll"
    /\ p_pc \in {"returned", "raised"}
    /\ IF p_pc = "raised"
       THEN /\ response' = Some(SyncRaise(p_err))
            /\ a_pc' = "done"
            /\ UNCHANGED <<b_pc, b64_str, b_origin>>
       ELSE IF p_ret[1] = <<>>
       THEN /\ response' = Some(SyncRaise("IndexError"))
            /\ a_pc' = "done"
            /\ UNCHANGED <<b_pc, b64_str, b_origin>>
       ELSE /\ b64_str' = FirstImage(p_ret[1])
            /\ b_origin' = [form |-> "result", bytes |-> <<>>, str |-> FirstImage(p_ret[1])]
            /\ b_pc' = "call"
            /\ a_pc' = "sync_materialize"
            /\ response' = response
    /\ UNCHANGED <<c_vars, now, log, request, provider, b_ret, b_err, s_vars, p_vars, g_vars>>

\* line 148: return what b64_to_bytes returned, or let its exception through
generate_image_sync_return ==
    /\ a_pc = "sync_materialize"
    /\ b_pc \in {"returned", "raised"}
    /\ response' = IF b_pc = "raised" THEN Some(SyncRaise(b_err))
                                      ELSE Some(SyncReturn(b_ret[1]))
    /\ a_pc' = "done"
    /\ UNCHANGED <<c_vars, now, log, request, provider, s_vars, p_vars, b_vars, g_vars>>

\* a data URI holding the bytes 137, 80
DataUri == DataPrefix \o <<"i", "m", "a", "g", "e", "/", "p", "n", "g", ";",
                           "b", "a", "s", "e", "6", "4", ",">> \o b64encode(<<137, 80>>)

\* the provider an endpoint talks to: what it answers to a submission ...
ServiceSubmitOutcomes ==
    {[kind |-> "transport"],
     [kind |-> "response", status |-> 500, body |-> [message |-> "m"]],
     [kind |-> "response", status |-> Accepted, body |-> [message |-> "m"]],
     [kind |-> "response", status |-> Accepted, body |-> [id |-> "abc123"]]}

\* ... the payload of its status answers while the job is not done ...
Queued == [done |-> FALSE, queue_position |-> 3]
PendingPayloads == {Queued, [done |-> FALSE, generations |-> <<[img |-> DataUri]>>]}

\* ... and the payloads of the status answers that end the wait
FinalPayloads ==
    {[done |-> FALSE, is_possible |-> FALSE],
     [done |-> TRUE, generations |-> <<>>],
     [done |-> TRUE, generations |-> <<[img |-> <<>>]>>],
     [done |-> TRUE, generations |-> <<[img |-> DataUri]>>],
     [done |-> TRUE, generations |-> <<[img |-> <<>>], [img |-> RefUrl], [img |-> RefBare]>>],
     [done |-> TRUE, generations |-> <<[img |-> DataUri], [img |-> RefUrl]>>],
     [done |-> TRUE, generations |-> <<[img |-> <<"Q">>]>>]}

ServiceStatusOutcomes(pending) ==
    {[kind |-> "transport"], [kind |-> "response", status |-> 404],
     [kind |-> "response", status |-> 500]}
    \cup {[kind |-> "response", status |-> StatusOk, body |-> d] :
            d \in FinalPayloads \cup {pending}}

\* submit_horde_job and poll_horde_job against this provider: every status query
\* takes the same time, and every answer before the final one has the same payload
service_submit == submit_post(ServiceSubmitOutcomes)
service_status == status_query(ServiceStatusOutcomes(provider.pending), {provider.latency})

(***************************************************************************)
(* Two calls side by side                                                  *)
(*                                                                         *)
(* submit_horde_job followed by poll_horde_job, run by two threads at      *)
(* once.  A dict is an object on the heap, and a local variable or a       *)
(* payload entry that names a dict holds its identity, as in Python:       *)
(* payload["params"] is the object default_params (line 39), so what is    *)
(* posted is what that object holds when the request is sent.  Each call   *)
(* is answered as the provider's script for it says: its submission is     *)
(* accepted with its own job identifier, its status queries are answered   *)
(* pending, then done with its own result.                                 *)
(***************************************************************************)
CallIds == {1, 2}

\* the dict object the caller of call i passes as params
ParamsObject(i) == i
\* line 25: default_params = {...} makes a new dict object in every call
SharedDict(i) == 2 + 1
NewDict(i) == 2 + i

\* what the provider answers to call i
JobOf(i) == IF i = 1 THEN "job1" ELSE "job2"
ResultOf(i) == IF i = 1 THEN RefBare ELSE RefUrl
StatusScript(i) ==
    <<[done |-> FALSE, queue_position |-> 3],
      [done |-> TRUE, generations |-> <<[img |-> <<>>], [img |-> ResultOf(i)]>>]>>

\* the arguments of the two calls
TwoCallParams == {None, Some([steps |-> 20]), Some([denoising_strength |-> 60]),
                  Some([karras |-> TRUE])}
TwoCallArgs ==
    [prompt : {"portrait"}, model : {"stable_diffusion"},
     init_image_b64 : {None, Some(RefBare)}, params : TwoCallParams]

\* the requests call i has sent so far
PostsOf(i) == SelectSeq(log, LAMBDA e : e.op = "POST" /\ e.call = i)
QueriesOf(i) == SelectSeq(log, LAMBDA e : e.op = "GET_STATUS" /\ e.call = i)

\* line 25: the defaults
call_defaults(i) ==
    /\ calls[i].pc = "defaults"
    /\ heap' = [heap EXCEPT ![NewDict(i)] = default_params]
    /\ calls' = [calls EXCEPT ![i].default_params = NewDict(i), ![i].pc = "merge"]
    /\ UNCHANGED <<now, log, s_vars, p_vars, b_vars, g_vars, a_vars>>

\* lines 33-34: if params: default_params.update(params)
call_merge(i) ==
    /\ calls[i].pc = "merge"
    /\ LET c == calls[i]
       IN  heap' = IF c.args.params # None /\ heap[ParamsObject(i)] # EmptyDict
                   THEN [heap EXCEPT ![c.default_params] =
                            Update(heap[c.default_params], heap[ParamsObject(i)])]
                   ELSE heap
    /\ calls' = [calls EXCEPT ![i].pc = "payload"]
    /\ UNCHANGED <<now, log, s_vars, p_vars, b_vars, g_vars, a_vars>>

\* lines 36-48: the payload names default_params; the injected denoising strength
\* is written into that object
call_payload(i) ==
    /\ calls[i].pc = "payload"
    /\ LET c == calls[i]
           base == [prompt |-> c.args.prompt, models |-> <<c.args.model>>,
                    params |-> c.default_params,
                    nsfw |-> FALSE, trusted_workers |-> TRUE, r2 |-> TRUE]
       IN  /\ calls' = [calls EXCEPT
                          ![i].payload =
                              IF SeedPresent(c.args.init_image_b64)
                              THEN Update(base, [source_image |-> c.args.init_image_b64[1]])
                              ELSE base,
                          ![i].pc = "post"]
           /\ heap' = [heap EXCEPT ![c.default_params] =
                          InjectDenoising(c.args.init_image_b64, heap[c.default_params])]
    /\ UNCHANGED <<now, log, s_vars, p_vars, b_vars, g_vars, a_vars>>

\* lines 59-66: the request body is the payload with the dict it names, as it is
\* now; the answer carries the job identifier
call_post(i) ==
    /\ calls[i].pc = "post"
    /\ LET c == calls[i]
           body == [c.payload EXCEPT !.params = heap[c.payload.params]]
       IN  log' = Append(log, [op |-> "POST", call |-> i, payload |-> body,
                               outcome |-> [kind |-> "response", status |-> Accepted,
                                            body |-> [id |-> JobOf(i)]]])
    /\ calls' = [calls EXCEPT ![i].job_id = JobOf(i), ![i].pc = "poll"]
    /\ UNCHANGED <<now, heap, s_vars, p_vars, b_vars, g_vars, a_vars>>

\* lines 94-122: one status query with the call's job identifier and what its
\* answer leads to
call_status(i) ==
    /\ calls[i].pc = "poll"
    /\ LET c == calls[i]
           d == StatusScript(i)[Len(QueriesOf(i)) + 1]
       IN  /\ log' = Append(log, [op |-> "GET_STATUS", call |-> i, job_id |-> c.job_id,
                                  kind |-> "response", status |-> StatusOk])
           /\ calls' = IF IsDone(d)
                       THEN [calls EXCEPT ![i].images = Some(Images(d.generations)),
                                          ![i].pc = "returned"]
                       ELSE calls
    /\ UNCHANGED <<now, heap, s_vars, p_vars, b_vars, g_vars, a_vars>>

two_defaults == \E i \in CallIds : call_defaults(i)
two_merge == \E i \in CallIds : call_merge(i)
two_payload == \E i \in CallIds : call_payload(i)
two_post == \E i \in CallIds : call_post(i)
two_status == \E i \in CallIds : call_status(i)

two_calls ==
    \/ two_defaults
    \/ two_merge
    \/ two_payload
    \/ two_post
    \/ two_status

ConcurrentIdle ==
    /\ heap = <<>>
    /\ calls = <<>>

GeminiIdle ==
    /\ g_pc = "idle"
    /\ g_args = [prompt |-> "", image_bytes |-> None, mode |-> "", extra_opts |-> None,
                 api_key |-> None]
    /\ g_payload = EmptyDict
    /\ g_attempt = 0
    /\ g_ret = None
    /\ g_err = ""

ApiIdle ==
    /\ a_pc = "idle"
    /\ request = EmptyDict
    /\ response = None
    /\ provider = [latency |-> 0, pending |-> EmptyDict]

\* one call of submit_horde_job with any of the callers' arguments
InitSubmit ==
    /\ ConcurrentIdle
    /\ now = 0
    /\ log = <<>>
    /\ s_pc = "build"
    /\ s_args \in SubmitArgs
    /\ payload = EmptyDict
    /\ attempt = 0
    /\ s_ret = None
    /\ s_err = ""
    /\ PollIdle
    /\ MaterializeIdle
    /\ GeminiIdle
    /\ ApiIdle

SpecSubmit == InitSubmit /\ [][submit_horde_job]_vars

\* the same call, with the provider's side of each request in view
SpecProvider == InitSubmit /\ [][submit_at_provider]_vars

\* one call of poll_horde_job with any job, interval and timeout
InitPoll ==
    /\ ConcurrentIdle
    /\ now = 0
    /\ log = <<>>
    /\ SubmitIdle
    /\ p_pc = "enter"
    /\ p_args \in PollArgs
    /\ start_time = 0
    /\ data = None
    /\ latency = 0
    /\ p_end = 0
    /\ p_ret = None
    /\ p_err = ""
    /\ MaterializeIdle
    /\ GeminiIdle
    /\ ApiIdle

SpecPoll == InitPoll /\ [][poll_horde_job]_vars

\* a provider that answers each status query with a failure or with any of the
\* payloads above
AnyStatusOutcomes ==
    {[kind |-> "transport"], [kind |-> "response", status |-> 404],
     [kind |-> "response", status |-> 500]}
    \cup {[kind |-> "response", status |-> StatusOk, body |-> d] :
            d \in FinalPayloads \cup PendingPayloads \cup {EmptyDict}}

poll_any_answer == status_query(AnyStatusOutcomes, Latencies)

poll_horde_job_running ==
    \/ poll_horde_job_enter
    \/ poll_horde_job_timeout
    \/ poll_any_answer
    \/ poll_horde_job_sleep

\* the call in a thread that keeps running: a step that can be taken (the deadline
\* check, a status request bounded by its timeout of 30, a sleep of poll_interval)
\* is taken
SpecPollFair ==
    InitPoll /\ [][poll_horde_job_running]_vars /\ WF_vars(poll_horde_job_running)

\* the call with status queries that take no time, and with the clock's advance
\* between the reading of line 86 and the first reading of line 90 in view: none,
\* or one unit
poll_horde_job_enter_late == enter_loop({0, 1})
poll_instant_answer == status_query(AnyStatusOutcomes, {0})

poll_horde_job_instant ==
    \/ poll_horde_job_enter_late
    \/ poll_horde_job_timeout
    \/ poll_instant_answer
    \/ poll_horde_job_sleep

SpecClock == InitPoll /\ [][poll_horde_job_instant]_vars

\* one call of b64_to_bytes with any reference
InitMaterialize ==
    /\ ConcurrentIdle
    /\ now = 0
    /\ log = <<>>
    /\ SubmitIdle
    /\ PollIdle
    /\ b_pc = "call"
    /\ b_origin \in References
    /\ b64_str = b_origin.str
    /\ b_ret = None
    /\ b_err = ""
    /\ GeminiIdle
    /\ ApiIdle

SpecMaterialize == InitMaterialize /\ [][b64_to_bytes]_vars

\* one call of call_gemini_multimodal with any arguments and environment
InitGemini ==
    /\ ConcurrentIdle
    /\ now = 0
    /\ log = <<>>
    /\ SubmitIdle
    /\ PollIdle
    /\ MaterializeIdle
    /\ g_pc = "build"
    /\ g_args \in GeminiArgs
    /\ g_payload = EmptyDict
    /\ g_attempt = 0
    /\ g_ret = None
    /\ g_err = ""
    /\ ApiIdle

SpecGemini == InitGemini /\ [][call_gemini_multimodal]_vars

\* two calls with any arguments, each caller holding its own params dict
InitTwoCalls ==
    /\ now = 0
    /\ log = <<>>
    /\ SubmitIdle
    /\ PollIdle
    /\ MaterializeIdle
    /\ GeminiIdle
    /\ ApiIdle
    /\ \E a \in [CallIds -> TwoCallArgs] :
        /\ calls = [i \in CallIds |->
                        [pc |-> "defaults", args |-> a[i], default_params |-> 0,
                         payload |-> EmptyDict, job_id |-> "", images |-> None]]
        /\ heap = [o \in 1..4 |->
                        IF o \in CallIds /\ a[o].params # None THEN a[o].params[1]
                        ELSE EmptyDict]

SpecTwoCalls == InitTwoCalls /\ [][two_calls]_vars

\* the requests whose prompt and parameters are built
PromptRequests ==
    {EditRequest(u, em, i) : u \in Uploads, em \in Emotions, i \in Floats}
    \cup {GenerateRequest(u, em, st) :
             u \in {None} \cup {Some(v) : v \in Uploads}, em \in Emotions, st \in Styles}

\* one edit or generate request, from its arrival to the payload of its submission
InitPrompt ==
    /\ ConcurrentIdle
    /\ now = 0
    /\ log = <<>>
    /\ SubmitIdle
    /\ PollIdle
    /\ MaterializeIdle
    /\ GeminiIdle
    /\ a_pc = "start"
    /\ request \in PromptRequests
    /\ response = None
    /\ provider = [latency |-> 0, pending |-> EmptyDict]

build_prompt ==
    \/ edit_image_prepare
    \/ generate_image_prepare
    \/ submit_horde_job_build

SpecPrompt == InitPrompt /\ [][build_prompt]_vars

\* the requests served end to end
ServiceRequests ==
    {EditRequest(u, em, i) :
        u \in Uploads, em \in {"happy", "joyful"},
        i \in {Literal(40), Literal(100), FAdd(Literal(100), Literal(50)), NaN,
               [Literal(50) EXCEPT !.s = -1]}}
    \cup {GenerateRequest(u, em, st) :
            u \in {None} \cup {Some(v) : v \in Uploads}, em \in {"SAD", "joyful"},
            st \in {"photorealistic"}}
    \cup {DetectRequest(u) : u \in Uploads}
    \cup {SyncRequest("portrait", i) : i \in {None, Some(RefBare)}}

\* one request to an endpoint, served from its arrival to its response
InitApi ==
    /\ ConcurrentIdle
    /\ now = 0
    /\ log = <<>>
    /\ SubmitIdle
    /\ PollIdle
    /\ MaterializeIdle
    /\ GeminiIdle
    /\ a_pc = "start"
    /\ request \in ServiceRequests
    /\ response = None
    /\ provider \in [latency : {0, RequestTimeout}, pending : PendingPayloads]

serve ==
    \/ detect_emotion_prepare
    \/ call_gemini_multimodal_build
    \/ call_gemini_multimodal_post
    \/ call_gemini_multimodal_sleep
    \/ detect_emotion_respond
    \/ edit_image_prepare
    \/ generate_image_prepare
    \/ submit_horde_job_build
    \/ service_submit
    \/ submit_horde_job_sleep
    \/ image_endpoint_poll
    \/ poll_horde_job_enter
    \/ poll_horde_job_timeout
    \/ service_status
    \/ poll_horde_job_sleep
    \/ image_endpoint_materialize
    \/ b64_to_bytes_download
    \/ b64_to_bytes_decode
    \/ image_endpoint_respond
    \/ generate_image_sync_submit
    \/ generate_image_sync_poll
    \/ generate_image_sync_materialize
    \/ generate_image_sync_return

SpecApi == InitApi /\ [][serve]_vars

(***************************************************************************)
(* Properties                                                              *)
(***************************************************************************)
Posts == SelectSeq(log, LAMBDA e : e.op = "POST")
SubmitFailed(o) == IF o.kind = "transport" THEN TRUE ELSE o.status # 202
SubmitAccepted(o) ==
    /\ o.kind = "response"
    /\ o.status = 202
    /\ "id" \in DOMAIN o.body
    /\ o.body.id # ""
Backoff == [op |-> "SLEEP", secs |-> 2]

\* C1: when the first submission attempt fails (transport error or a status other
\* than 202) the call goes on to a second attempt, and when that one is answered
\* with 202 and a job id the call has sent exactly two requests with the same
\* payload, slept the 2-unit backoff exactly once between them, and returned the
\* job id and body of the second response.
C1_RetryThenSuccess ==
    /\ (Len(Posts) = 1 /\ SubmitFailed(Posts[1].outcome)) =>
            \/ s_pc = "sleep" /\ Len(log) = 1
            \/ s_pc = "post" /\ Len(log) = 2 /\ log[2] = Backoff
    /\ (Len(Posts) >= 2 /\ SubmitFailed(Posts[1].outcome)
                        /\ SubmitAccepted(Posts[2].outcome)) =>
            /\ Len(log) = 3
            /\ log[1].op = "POST" /\ log[2] = Backoff /\ log[3].op = "POST"
            /\ log[3].payload = log[1].payload
            /\ s_pc = "returned"
            /\ s_err = ""
            /\ s_ret = Some(<<Posts[2].outcome.body.id, Posts[2].outcome.body>>)

C1_Witness ==
    /\ s_pc = "returned"
    /\ Len(log) = 3
    /\ log[1].outcome.kind = "transport"
    /\ s_ret = Some(<<"abc123", [id |-> "abc123"]>>)

\* C2: against a provider that fails every attempt the call sends exactly two
\* submission requests and never a third, takes the backoff only between them,
\* then fails with a submission error and returns no job id.
C2_AlwaysFailing ==
    (\A i \in 1..Len(Posts) : SubmitFailed(Posts[i].outcome)) =>
        /\ Len(Posts) <= 2
        /\ s_ret = None
        /\ Len(Posts) < 2 => s_pc \in {"build", "post", "sleep"}
        /\ Len(Posts) = 2 =>
            /\ s_pc = "raised"
            /\ s_err \in {"Submission failed", "Network error"}
            /\ Len(log) = 3
            /\ log[2] = Backoff
            /\ log[3].op = "POST"

C2_Witness ==
    /\ s_pc = "raised"
    /\ Len(Posts) = 2
    /\ Posts[1].outcome.kind = "response" /\ Posts[1].outcome.status = 500
    /\ Posts[2].outcome.kind = "transport"
    /\ s_err = "Network error"

MarkedImpossible(d) == "is_possible" \in DOMAIN d /\ d.is_possible = FALSE
MarkedDone(d) == "done" \in DOMAIN d /\ d.done = TRUE

\* C3: a status answer that marks the job impossible, done or not, ends the call at
\* once with the job-impossible error: the query that got it is the last thing
\* the call did (no sleep, no further query) and no result references are returned.
C3_ImpossibleFailsAtOnce ==
    (data # None /\ MarkedImpossible(data[1])) =>
        /\ p_pc = "raised"
        /\ p_err = "Job marked as impossible by horde"
        /\ p_ret = None
        /\ log[Len(log)].op = "GET_STATUS"
        /\ p_end = now

C3_Witness ==
    /\ data # None
    /\ MarkedImpossible(data[1])
    /\ MarkedDone(data[1])
    /\ Get(data[1], "generations", <<>>) = <<[img |-> RefBare]>>
    /\ p_pc = "raised"
    /\ Len(log) = 3

Elapsed == p_end - start_time

NonEmptyResults(d) ==
    LET gens == IF "generations" \in DOMAIN d THEN d.generations ELSE <<>>
        recs == SelectSeq(gens, LAMBDA g : "img" \in DOMAIN g /\ g.img # <<>>)
    IN  [i \in 1..Len(recs) |-> recs[i].img]

DoneOutcome(d) ==
    IF NonEmptyResults(d) # <<>>
    THEN /\ p_pc = "returned"
         /\ p_ret = Some(NonEmptyResults(d))
         /\ p_err = ""
    ELSE /\ p_pc = "raised"
         /\ p_err \in {"Job completed but no images generated",
                       "No valid images in completed job"}
         /\ p_ret = None

\* C5 as stated: on every done answer the call returns exactly the non-empty result
\* fields in the provider's order, or fails with the empty-result error when there
\* is none.
C5_EveryDoneAnswer ==
    (data # None /\ MarkedDone(data[1])) => DoneOutcome(data[1])

\* C5 as amended: on a done answer that does not mark the job impossible the call
\* returns exactly the non-empty result fields in the provider's order, or fails
\* with the empty-result error when there is none.
C5_DoneResults ==
    (data # None /\ MarkedDone(data[1]) /\ ~MarkedImpossible(data[1])) =>
        DoneOutcome(data[1])

C5_Witness ==
    /\ data # None
    /\ MarkedDone(data[1])
    /\ Get(data[1], "generations", <<>>) = <<[img |-> <<>>], [img |-> RefUrl]>>
    /\ p_pc = "returned"
    /\ p_ret = Some(<<RefUrl>>)

\* C6: a status query that fails (a status other than 200, or a transport error) is
\* the last thing the call does: the call has failed and no later query or sleep
\* follows it.
C6_NoRetryOfStatusQuery ==
    \A i \in 1..Len(log) :
        (log[i].op = "GET_STATUS" /\ (log[i].kind = "transport" \/ log[i].status # 200)) =>
            /\ i = Len(log)
            /\ p_pc = "raised"
            /\ p_err \in {"Status check failed", "Network error during polling"}
            /\ p_ret = None

C6_Witness ==
    /\ Len(log) = 3
    /\ log[1].op = "GET_STATUS" /\ log[1].status = 200
    /\ log[3].op = "GET_STATUS" /\ log[3].status = 500
    /\ p_pc = "raised"
    /\ p_err = "Status check failed"

DefaultKeys == {"steps", "width", "height", "cfg_scale", "sampler_name"}

\* C7: the parameters sent are the default set with every caller-supplied key
\* overriding or extending it; denoising strength 0.75 is added exactly when a
\* (non-empty) seed image is given and the caller supplied none, and without a
\* seed image and without a caller value the key is absent.
C7_PayloadParams ==
    s_pc \notin {"idle", "build"} =>
        LET c == IF s_args.params = None THEN EmptyDict ELSE s_args.params[1]
            sent == payload.params
            seed == s_args.init_image_b64 \notin {None, Some(<<>>)}
        IN  /\ \A i \in 1..Len(Posts) : Posts[i].payload = payload
            /\ \A k \in DOMAIN c : k \in DOMAIN sent /\ sent[k] = c[k]
            /\ "steps" \notin DOMAIN c => Get(sent, "steps", 0) = 30
            /\ "width" \notin DOMAIN c => Get(sent, "width", 0) = 512
            /\ "height" \notin DOMAIN c => Get(sent, "height", 0) = 512
            /\ "cfg_scale" \notin DOMAIN c => Get(sent, "cfg_scale", 0) = 750
            /\ "sampler_name" \notin DOMAIN c => Get(sent, "sampler_name", "") = "k_euler"
            /\ DOMAIN sent \subseteq DefaultKeys \cup DOMAIN c \cup {"denoising_strength"}
            /\ "denoising_strength" \notin DOMAIN c =>
                    IF seed
                    THEN Get(sent, "denoising_strength", 0) = 75
                    ELSE "denoising_strength" \notin DOMAIN sent

C7_Witness ==
    /\ Len(Posts) >= 1
    /\ s_args.params = Some([steps |-> 20, karras |-> TRUE])
    /\ s_args.init_image_b64 = Some(RefBare)
    /\ Posts[1].payload.params =
          [steps |-> 20, width |-> 512, height |-> 512, cfg_scale |-> 750,
           sampler_name |-> "k_euler", karras |-> TRUE, denoising_strength |-> 75]

\* C8: b64_to_bytes applied to the bare base64 encoding of a byte string returns
\* that byte string and sends no HTTP request.
C8_BareRoundTrip ==
    (b_origin.form = "bare" /\ b_pc # "call") =>
        /\ b_pc = "returned"
        /\ b_ret = Some(b_origin.bytes)
        /\ log = <<>>

\* C9: b64_to_bytes applied to a data-URI (data:, a header, the first comma, the
\* base64 encoding of a byte string) returns that byte string, decoding only what
\* follows the first comma, and sends no HTTP request.
C9_DataUriRoundTrip ==
    (b_origin.form = "data_uri" /\ b_pc # "call") =>
        /\ b_pc = "returned"
        /\ b_ret = Some(b_origin.bytes)
        /\ b_err = ""
        /\ log = <<>>

C9_Witness ==
    /\ b_origin.form = "data_uri"
    /\ b_origin.bytes = <<134, 219, 105>>
    /\ Len(b64_str) > 10
    /\ b_pc = "returned"
    /\ b_ret = Some(<<134, 219, 105>>)

\* C10: b64_to_bytes applied to an http(s) reference sends exactly one GET, to that
\* reference; a 200 answer makes it return the body unchanged, any other status
\* makes it fail with the download error, and the GET is never repeated.
C10_OneGet ==
    (b_origin.form = "url" /\ b_pc # "call") =>
        /\ Len(log) = 1
        /\ log[1].op = "GET"
        /\ log[1].url = b_origin.str
        /\ log[1].outcome.kind = "response" =>
            IF log[1].outcome.status = 200
            THEN /\ b_pc = "returned"
                 /\ b_ret = Some(log[1].outcome.content)
                 /\ b_err = ""
            ELSE /\ b_pc = "raised"
                 /\ b_err = "Failed to download image"
                 /\ b_ret = None

C10_Witness ==
    /\ b_origin.form = "url"
    /\ b_pc = "raised"
    /\ b_err = "Failed to download image"
    /\ Len(log) = 1
    /\ log[1].outcome.status = 404

GeminiPosts == SelectSeq(log, LAMBDA e : e.op = "GEMINI_POST")
Transient(o) == IF o.kind = "transport" THEN TRUE ELSE o.status >= 500 /\ o.status <= 599
Rejected(o) == IF o.kind = "transport" THEN FALSE ELSE o.status # 200 /\ ~Transient(o)
GeminiPause == [op |-> "SLEEP", secs |-> 1]

\* C11: call_gemini_multimodal sends at most two POSTs per call; a first attempt that
\* ends in a transport error or a 5xx status is followed by a 1-unit sleep and a
\* second POST of the same body, and no other first attempt is; a first answer with
\* any other non-200 status fails the call after exactly one POST; a second attempt
\* that does not return a result fails the call.
C11_GeminiRetry ==
    /\ Len(GeminiPosts) <= 2
    /\ Len(GeminiPosts) = 2 =>
            /\ Transient(GeminiPosts[1].outcome)
            /\ Len(log) = 3
            /\ log[1].op = "GEMINI_POST" /\ log[2] = GeminiPause /\ log[3].op = "GEMINI_POST"
            /\ log[3].payload = log[1].payload
            /\ g_pc \in {"returned", "raised"}
            /\ g_pc = "returned" <=> g_ret # None
            /\ Transient(GeminiPosts[2].outcome) \/ Rejected(GeminiPosts[2].outcome) =>
                    g_pc = "raised" /\ g_err \in {"API request failed", "Network error"}
    /\ (Len(GeminiPosts) = 1 /\ Transient(GeminiPosts[1].outcome)) =>
            \/ g_pc = "sleep" /\ Len(log) = 1
            \/ g_pc = "post" /\ log = <<log[1], GeminiPause>>
    /\ (Len(GeminiPosts) >= 1 /\ Rejected(GeminiPosts[1].outcome)) =>
            /\ Len(log) = 1
            /\ g_pc = "raised"
            /\ g_err = "API request failed"
            /\ g_ret = None

C11_Witness ==
    /\ g_pc = "raised"
    /\ Len(GeminiPosts) = 2
    /\ GeminiPosts[1].outcome.kind = "response" /\ GeminiPosts[1].outcome.status = 503
    /\ GeminiPosts[2].outcome.kind = "response" /\ GeminiPosts[2].outcome.status = 500
    /\ now = 1

\* a parsed payload that carries the three fields
Complete(v) ==
    /\ v.type = "object"
    /\ {"dominant_emotion", "confidence", "all_scores"} \subseteq DOMAIN v.fields
ResponseFormatErrors ==
    {"Invalid JSON response", "Invalid response format from Gemini API",
     "Could not parse JSON from response",
     "Invalid detect response: missing required keys"}
Answered200(e) ==
    e.op = "GEMINI_POST" /\ e.outcome.kind = "response" /\ e.outcome.status = 200

\* C12: in detect mode a 200 answer ends the call at once (it is the last request,
\* so a first 200 answer means exactly one POST); the call returns only a parsed
\* payload that carries dominant_emotion, confidence and all_scores, and on every
\* other 200 answer it fails with the response-format error.
C12_DetectFormat ==
    g_args.mode = "detect" =>
        \A i \in 1..Len(log) :
            Answered200(log[i]) =>
                /\ i = Len(log)
                /\ g_pc \in {"returned", "raised"}
                /\ g_pc = "returned" => g_ret # None /\ Complete(g_ret[1])
                /\ g_pc = "raised" => g_ret = None /\ g_err \in ResponseFormatErrors

\* the supported emotion and style a request names, whatever its letter case
NamedEmotion ==
    CASE request.target_emotion \in {"happy", "Happy"} -> "happy"
      [] request.target_emotion \in {"sad", "SAD"} -> "sad"
      [] OTHER -> request.target_emotion
NamedStyle ==
    CASE request.style \in {"cartoon", "Cartoon"} -> "cartoon"
      [] request.style \in {"oil", "OIL"} -> "oil"
      [] OTHER -> request.style
SupportedEmotions == {"happy", "sad", "angry", "surprised", "neutral", "disgust", "fear"}
SupportedStyles == {"photorealistic", "cartoon", "oil"}
PhraseOfEmotion ==
    [happy |-> "gentle smile, eyes slightly crinkled, joyful expression",
     sad |-> "downturned mouth, drooping eyes, melancholy expression",
     angry |-> "furrowed brow, intense gaze, stern expression",
     surprised |-> "raised eyebrows, wide eyes, open mouth",
     neutral |-> "calm expression, relaxed features, peaceful look",
     disgust |-> "wrinkled nose, slight frown, disapproving look",
     fear |-> "wide eyes, tense features, worried expression"]
PhraseOfStyle ==
    [photorealistic |-> "photorealistic, high detail, professional photography",
     cartoon |-> "cartoon style, animated, colorful, digital art",
     oil |-> "oil painting style, artistic, painterly, classical art"]
Contains(prompt, piece) == \E i \in 1..Len(prompt) : prompt[i] = piece
Seeded == request.image # None /\ request.image[1].filename # ""
PayloadBuilt == a_pc = "submit" /\ s_pc = "post"

\* C14: the payload built for an edit or generate request has a prompt that contains
\* the fixed phrase of the request's emotion and, for generate with a supported
\* style, the phrase of that style; the denoising strength is 0.2 + intensity * 0.6
\* for edit and exactly 0.6 for generate with a seed image, and generate without a
\* seed image sends no denoising strength.
C14_PromptAndStrength ==
    PayloadBuilt =>
        /\ NamedEmotion \in SupportedEmotions
        /\ Contains(payload.prompt, PhraseOfEmotion[NamedEmotion])
        /\ request.endpoint = "edit" =>
                payload.params.denoising_strength =
                    FAdd(Literal(20), FMul(request.intensity, Literal(60)))
        /\ (request.endpoint = "generate" /\ NamedStyle \in SupportedStyles) =>
                Contains(payload.prompt, PhraseOfStyle[NamedStyle])
        /\ (request.endpoint = "generate" /\ Seeded) =>
                /\ "denoising_strength" \in DOMAIN payload.params
                /\ payload.params.denoising_strength = 60
        /\ (request.endpoint = "generate" /\ ~Seeded) =>
                "denoising_strength" \notin DOMAIN payload.params

C14_Witness ==
    /\ PayloadBuilt
    /\ request.endpoint = "generate"
    /\ request.target_emotion = "SAD"
    /\ request.style = "OIL"
    /\ request.image = None
    /\ payload.prompt = <<"portrait of a person showing ",
                          "downturned mouth, drooping eyes, melancholy expression", ", ",
                          "oil painting style, artistic, painterly, classical art">>
    /\ DOMAIN payload.params = {"steps", "width", "height", "cfg_scale", "sampler_name"}

\* C15: for a style that is not one of the three supported styles the generate
\* endpoint builds the prompt it builds for style photorealistic with the same
\* emotion and seed presence.
C15_FallbackIsPhotorealistic ==
    (PayloadBuilt /\ request.endpoint = "generate" /\ NamedStyle \notin SupportedStyles) =>
        payload.prompt =
            <<IF Seeded THEN "portrait of the same person, "
                        ELSE "portrait of a person showing ",
              PhraseOfEmotion[NamedEmotion], ", ", PhraseOfStyle.photorealistic>>

\* the exact value of a float that is not negative, in units of the smallest step
Scaled(f) == f.m * 2^(f.e + MinExp + FloatBits - 1)
\* j - i is at least 2^(2 - FloatBits): four steps of the floats just below 1
Separated(i, j) == Scaled(j) - Scaled(i) >= 2^(MinExp + 1)
Strength == payload.params.denoising_strength
InRange(f) == FLe(Literal(0), f) /\ FLe(f, Literal(100))
ExpectedStrength(j) == FAdd(Literal(20), FMul(j, Literal(60)))
OutOfRangeRejected ==
    (request.endpoint = "edit" /\ ~InRange(request.intensity) /\ a_pc # "start") =>
        /\ a_pc = "done"
        /\ s_pc = "idle"
        /\ response # None
        /\ response[1].status \in {400, 500}
        /\ log = <<>>
StrengthBounds ==
    /\ InRange(request.intensity)
    /\ FLe(Literal(20), Strength) /\ FLe(Strength, Literal(80))
    /\ request.intensity = Literal(0) => Strength = Literal(20)
    /\ request.intensity = Literal(100) => Strength = Literal(80)

C13_LowConfidence ==
    (request.endpoint = "detect" /\ a_pc = "done" /\ g_pc = "returned"
        /\ Complete(g_ret[1])) =>
        LET result == g_ret[1].fields
            r == response[1]
        IN  /\ r.status = 200
            /\ DOMAIN r.body = {"dominant_emotion", "confidence", "all_scores",
                                "low_confidence"}
            /\ r.body.dominant_emotion = result.dominant_emotion
            /\ r.body.confidence = result.confidence
            /\ r.body.all_scores = result.all_scores
            /\ r.body.low_confidence <=> result.confidence < 50
            /\ result.confidence = 42 => r.body.low_confidence
            /\ result.confidence \in {50, 75} => ~r.body.low_confidence

C13_Witness ==
    /\ request.endpoint = "detect"
    /\ a_pc = "done"
    /\ response # None
    /\ response[1].status = 200
    /\ response[1].body.confidence = 42
    /\ response[1].body.low_confidence
    /\ Len(log) = 3

ImageEndpoint == request.endpoint \in {"edit", "generate"}
ValidationDetails ==
    {<<"File must be an image">>, <<"Seed file must be an image">>,
     <<"Intensity must be between 0.0 and 1.0">>, <<"Unsupported emotion">>,
     <<"File size exceeds 5MB limit">>}

\* C17: an edit or generate request ends with a response that is either status 200
\* with exactly the bytes the materializer returned, after submission, polling and
\* materialization all succeeded, or an error status with a detail and no bytes;
\* a failure of submission, polling or materialization gives status 500, and a 400
\* or 413 is the validation's own error, raised before anything was called.
C17_Outcome ==
    (ImageEndpoint /\ a_pc = "done") =>
        /\ response # None
        /\ LET r == response[1]
           IN  /\ r.status \in {200, 400, 413, 500}
               /\ r.status = 200 =>
                    /\ s_pc = "returned" /\ p_pc = "returned" /\ b_pc = "returned"
                    /\ r.content = Some(b_ret[1])
                    /\ r.media_type = "image/png"
                    /\ r.detail = <<>>
               /\ r.status # 200 =>
                    /\ r.content = None
                    /\ r.detail # <<>>
               /\ (s_pc = "raised" \/ p_pc = "raised" \/ b_pc = "raised") =>
                    /\ r.status = 500
                    /\ r.detail[Len(r.detail)] \in {s_err, p_err, b_err} \ {""}
               /\ r.status \in {400, 413} =>
                    /\ r.detail \in ValidationDetails
                    /\ r.status = 413 <=> r.detail = <<"File size exceeds 5MB limit">>
                    /\ s_pc = "idle" /\ p_pc = "idle" /\ b_pc = "idle"

C17_Witness ==
    /\ request.endpoint = "edit"
    /\ a_pc = "done"
    /\ response # None
    /\ response[1].status = 500
    /\ p_err = "TimeoutError"
    /\ response[1].detail = <<"Error editing image: ", "TimeoutError">>
    /\ response[1].content = None

\* the request is one that validation rejects
NotAnImage(upload) == upload.content_type # None /\ upload.content_type[1][1] # "image/"
Oversize(upload) == upload.size > 5 * 1024 * 1024
Unsupported == NamedEmotion \notin SupportedEmotions
OutOfRange == ~InRange(request.intensity)
Rejectable ==
    CASE request.endpoint = "edit" ->
            /\ request.image[1].content_type # None
            /\ \/ NotAnImage(request.image[1]) \/ OutOfRange \/ Unsupported
               \/ Oversize(request.image[1])
      [] request.endpoint = "generate" ->
            \/ Unsupported
            \/ /\ Seeded
               /\ NotAnImage(request.image[1]) \/ Oversize(request.image[1])
      [] request.endpoint = "detect" ->
            NotAnImage(request.image[1]) \/ Oversize(request.image[1])
      [] OTHER -> FALSE
NothingCalled ==
    /\ log = <<>>
    /\ now = 0
    /\ s_pc = "idle" /\ p_pc = "idle" /\ b_pc = "idle" /\ g_pc = "idle"

\* C18: a request that validation rejects (an upload that is not an image, an
\* intensity outside [0, 1], an unsupported emotion, an oversize file) is answered
\* at once with 400 or 413: nothing is sent to the provider or the classifier, no
\* call is started and nothing is retried; and every 400 or 413 is such an answer.
C18_RejectedSendsNothing ==
    /\ (Rejectable /\ a_pc # "start") =>
            /\ a_pc = "done"
            /\ response # None
            /\ response[1].status \in {400, 413}
            /\ NothingCalled
    /\ (a_pc = "done" /\ response # None /\ response[1].status \in {400, 413}) =>
            Rejectable /\ NothingCalled

C18_Witness ==
    /\ request.endpoint = "edit"
    /\ request.image[1].content_type = Png
    /\ request.target_emotion = "happy"
    /\ request.image[1].size = 2
    /\ ~InRange(request.intensity)
    /\ a_pc = "done"
    /\ response[1].status = 400
    /\ log = <<>>

StatusQueries == SelectSeq(log, LAMBDA e : e.op = "GET_STATUS")
DoneWithDataUri == [done |-> TRUE, generations |-> <<[img |-> DataUri]>>]
ScenarioC19 ==
    /\ request.endpoint = "generate"
    /\ Len(Posts) >= 1
    /\ Posts[1].outcome = [kind |-> "response", status |-> 202, body |-> [id |-> "abc123"]]
    /\ provider.pending = [done |-> FALSE, queue_position |-> 3]
    /\ Len(StatusQueries) = 2
    /\ data = Some(DoneWithDataUri)

\* C19: when the submission of a generate request is accepted with job abc123, the
\* first status answer is queued at position 3 and the second is done with one
\* record holding a data URI, the endpoint has sent exactly one submission and two
\* status queries with one 3-unit sleep between them and no download, and responds
\* with exactly the decoded bytes and media type image/png.
C19_EndToEnd ==
    ScenarioC19 =>
        /\ Len(log) = 4
        /\ log[1].op = "POST"
        /\ log[2] = [op |-> "GET_STATUS", job_id |-> "abc123", kind |-> "response",
                     status |-> 200]
        /\ log[3] = [op |-> "SLEEP", secs |-> 3]
        /\ log[4] = log[2]
        /\ p_pc = "returned"
        /\ p_ret = Some(<<DataUri>>)
        /\ a_pc \in {"poll", "materialize", "done"}
        /\ a_pc = "materialize" => b_pc \in {"call", "returned"} /\ b64_str = DataUri
        /\ b_pc = "returned" => b_ret = Some(<<137, 80>>)
        /\ a_pc = "done" =>
                /\ response # None
                /\ response[1].status = 200
                /\ response[1].content = Some(<<137, 80>>)
                /\ response[1].media_type = "image/png"

C19_Witness ==
    /\ ScenarioC19
    /\ request.image = None
    /\ request.style = "photorealistic"
    /\ a_pc = "done"
    /\ response[1].content = Some(<<137, 80>>)
    /\ now = 3

Gets == SelectSeq(log, LAMBDA e : e.op = "GET")
CarriesResults(d) == "generations" \in DOMAIN d /\ NonEmptyResults(d) # <<>>

\* C20: poll_horde_job returns result references only from a status answer whose
\* done flag is true, and then exactly that answer's; after an answer that is not
\* done, whatever generation records it carries, nothing is returned, nothing is
\* materialized or downloaded, and the endpoint does not answer 200.
C20_OnlyDoneResults ==
    /\ p_pc = "returned" =>
            /\ data # None
            /\ MarkedDone(data[1])
            /\ p_ret = Some(NonEmptyResults(data[1]))
    /\ b_pc # "idle" => data # None /\ MarkedDone(data[1]) /\ b64_str = NonEmptyResults(data[1])[1]
    /\ (data # None /\ ~MarkedDone(data[1])) =>
            /\ p_pc \in {"sleep", "loop", "raised"}
            /\ p_ret = None
            /\ b_pc = "idle"
            /\ Gets = <<>>
            /\ a_pc = "done" =>
                    /\ response # None
                    /\ response[1].status # 200
                    /\ response[1].content = None

C20_Witness ==
    /\ data # None
    /\ ~MarkedDone(data[1])
    /\ CarriesResults(data[1])
    /\ Len(StatusQueries) >= 3
    /\ p_err = "TimeoutError"
    /\ a_pc = "done"
    /\ response[1].status = 500

JobRequest == request.endpoint \in {"edit", "generate", "sync"}
FailureAnswer(e) == e.kind = "transport" \/ e.status # 200
Last(seq) == seq[Len(seq)]
PollEnded ==
    \/ p_pc \in {"returned", "raised"}
    \/ StatusQueries # <<>> /\ FailureAnswer(Last(StatusQueries))
    \/ data # None /\ (MarkedDone(data[1]) \/ MarkedImpossible(data[1]))

\* C21: once polling has ended (a done answer, an impossible answer, a status
\* answer that is not 200, a transport error, a done answer without results, or the
\* timeout), the call has returned or raised, and no later step of the request
\* sends another status query or changes what polling reported.
C21_Terminal ==
    [][PollEnded =>
            /\ p_pc \in {"returned", "raised"}
            /\ StatusQueries' = StatusQueries
            /\ UNCHANGED <<p_pc, p_ret, p_err, p_end>>]_vars

C21_Witness ==
    /\ JobRequest
    /\ PollEnded
    /\ p_err = "Job completed but no images generated"
    /\ Len(StatusQueries) = 2
    /\ a_pc = "done"
    /\ response # None

Rank(e) == CASE e.op = "POST" -> 1 [] e.op = "GET_STATUS" -> 2 [] e.op = "GET" -> 3
             [] OTHER -> 0
Requests == SelectSeq(log, LAMBDA e : Rank(e) > 0)

\* C27: within one edit, generate or generate_image_sync request every submission
\* request precedes every status query and every status query precedes the
\* download; status queries are sent only after submission returned and carry the
\* identifier it returned; the materializer runs only after polling returned from
\* a done answer; after a failed submission nothing is polled, and after failed
\* polling nothing is materialized.
C27_Ordered ==
    JobRequest =>
        /\ LET rs == Requests
           IN  \A i \in 1..(Len(rs) - 1) : Rank(rs[i]) <= Rank(rs[i + 1])
        /\ (p_pc # "idle" \/ StatusQueries # <<>>) =>
                /\ s_pc = "returned"
                /\ p_args.job_id = s_ret[1][1]
                /\ LET qs == StatusQueries
                   IN  \A i \in DOMAIN qs : qs[i].job_id = s_ret[1][1]
        /\ (b_pc # "idle" \/ Gets # <<>>) =>
                /\ p_pc = "returned"
                /\ MarkedDone(data[1])
        /\ s_pc = "raised" => StatusQueries = <<>> /\ p_pc = "idle" /\ b_pc = "idle"
        /\ p_pc = "raised" => Gets = <<>> /\ b_pc = "idle"

C27_Witness ==
    /\ request.endpoint = "edit"
    /\ a_pc = "done"
    /\ Len(Posts) = 2
    /\ Len(StatusQueries) = 2
    /\ Len(Gets) = 1
    /\ Len(log) = 7
    /\ response[1].status = 200

FirstResult == NonEmptyResults(data[1])[1]
SeveralRecords == data # None /\ MarkedDone(data[1]) /\ Len(data[1].generations) > 1

\* C28: what an edit, generate or generate_image_sync request materializes is the
\* first non-empty result field of the done answer, in the provider's order: it is
\* the only reference handed to b64_to_bytes, the only one downloaded, and the
\* bytes answered are its download or its decoding.
C28_FirstRecord ==
    JobRequest =>
        /\ b_pc # "idle" => b64_str = FirstResult
        /\ Len(Gets) <= 1
        /\ Gets # <<>> => Gets[1].url = FirstResult /\ IsHttpRef(FirstResult)
        /\ (a_pc = "done" /\ response # None /\ response[1].content # None) =>
                response[1].content =
                    IF IsHttpRef(FirstResult) THEN Some(Gets[1].outcome.content)
                    ELSE Some(<<137, 80>>)

C28_Witness ==
    /\ request.endpoint = "sync"
    /\ SeveralRecords
    /\ Len(data[1].generations) = 3
    /\ FirstResult = RefUrl
    /\ a_pc = "done"
    /\ response[1].content = Some(<<137, 80>>)
    /\ Len(Gets) = 1

C28_WitnessDataUri ==
    /\ request.endpoint = "generate"
    /\ SeveralRecords
    /\ FirstResult = DataUri
    /\ a_pc = "done"
    /\ response[1].content = Some(<<137, 80>>)
    /\ Gets = <<>>

SubmissionReached == s_pc \notin {"idle", "build"}
CarriesSeed == "source_image" \in DOMAIN payload
HasSeedStrength ==
    /\ "denoising_strength" \in DOMAIN payload.params
    /\ payload.params.denoising_strength = 60
SamePersonPrompt == payload.prompt[1] = "portrait of the same person, "
NewPortraitPrompt == payload.prompt[1] = "portrait of a person showing "

\* C25: for every generate request that reaches submission, the payload carries a
\* seed image exactly when its parameters carry denoising strength 0.6, exactly
\* when its prompt is the same-person form, and exactly when the X-Seed-Used header
\* of the 200 response is True; a payload without a seed image has no denoising
\* strength and the new-portrait prompt.
C25_SeedFactsAgree ==
    (request.endpoint = "generate" /\ SubmissionReached) =>
        /\ CarriesSeed <=> HasSeedStrength
        /\ CarriesSeed <=> SamePersonPrompt
        /\ ~CarriesSeed =>
                /\ "denoising_strength" \notin DOMAIN payload.params
                /\ NewPortraitPrompt
        /\ (a_pc = "done" /\ response[1].status = 200) =>
                (CarriesSeed <=> response[1].headers["X-Seed-Used"] = "True")

\* C26: every payload the edit endpoint submits carries the uploaded image as its
\* seed image, the same-person prompt and the denoising strength computed from the
\* intensity.
C26_EditIsImageToImage ==
    (request.endpoint = "edit" /\ SubmissionReached) =>
        /\ CarriesSeed
        /\ payload.source_image = b64encode(request.image[1].bytes)
        /\ payload.prompt[1] = "same person, "
        /\ payload.params.denoising_strength = ExpectedStrength(request.intensity)

JobsCreated == Len(SelectSeq(Posts, LAMBDA e : e.outcome.created))

\* C23: a call of submit_horde_job that returns a job identifier has created exactly
\* one job at the provider, and a call that fails has created at most one.
C23_OneJob ==
    /\ s_pc = "returned" => JobsCreated = 1
    /\ s_pc = "raised" => JobsCreated <= 1

NoJobId(o) ==
    /\ o.kind = "response"
    /\ o.status = 202
    /\ ~Get(o, "json", TRUE) \/ Get(o.body, "id", "") = ""

\* C24: when the first answer is a 202 that carries no job identifier, the call has
\* failed with that one request: no backoff, no second submission request.
C24_NoIdFailsAtOnce ==
    (Posts # <<>> /\ NoJobId(Posts[1].outcome)) =>
        /\ s_pc = "raised"
        /\ Len(log) = 1

\* C29: with a positive poll interval and a finite timeout, every call of
\* poll_horde_job ends: it returns the result references or raises, whatever the
\* provider answers, as long as every status query ends within its request timeout.
C29_Terminates == <>(p_pc \in {"returned", "raised"})

C29_Witness ==
    /\ p_pc = "raised"
    /\ p_err = "TimeoutError"
    /\ p_args.poll_interval = 1
    /\ p_args.timeout = MaxTimeout
    /\ latency = 0
    /\ Len(StatusQueries) = MaxTimeout + 1
    /\ now = MaxTimeout + 1

PollOver == p_pc \in {"returned", "raised"}
Queries == Len(StatusQueries)
Sleeps == Len(SelectSeq(log, LAMBDA e : e.op = "SLEEP"))
OkAnswers == Len(SelectSeq(StatusQueries, LAMBDA e : e.kind = "response" /\ e.status = 200))
\* only the last 200 answer can be other than pending, and data holds it
NotDoneAnswers == OkAnswers - (IF data # None /\ MarkedDone(data[1]) THEN 1 ELSE 0)
PendingAnswers ==
    OkAnswers - (IF data # None /\ (MarkedDone(data[1]) \/ MarkedImpossible(data[1]))
                 THEN 1 ELSE 0)
QueryLimit == (p_args.timeout \div p_args.poll_interval) + 1

\* C30 as stated: with status queries that take no time, a call that has ended sent
\* at least one status query and at most floor(T / p) + 1, and slept once for every
\* 200 answer whose done flag was not true.
C30_QueryCount ==
    PollOver =>
        /\ Queries >= 1
        /\ Queries <= QueryLimit
        /\ Sleeps = NotDoneAnswers

\* C30 amended: a call that has ended sent at most floor(T / p) + 1 status queries;
\* it sent none only if the timeout had already passed at the loop's first check,
\* which needs a timeout shorter than the clock's advance since entry; and it slept
\* once for every 200 answer that was neither done nor marked impossible.
C30_QueryBounds ==
    PollOver =>
        /\ Queries <= QueryLimit
        /\ Queries = 0 =>
                /\ p_err = "TimeoutError"
                /\ p_end - start_time > p_args.timeout
        /\ p_args.timeout >= 1 => Queries >= 1
        /\ Sleeps = PendingAnswers

C30_Witness ==
    /\ PollOver
    /\ p_err = "TimeoutError"
    /\ p_args.poll_interval = 1
    /\ p_args.timeout = MaxTimeout
    /\ Queries = MaxTimeout + 1
    /\ Sleeps = Queries

C30_WitnessNoQuery ==
    /\ PollOver
    /\ p_args.timeout = 0
    /\ Queries = 0
    /\ log = <<>>

CallerParams0(i) == calls[i].args.params
AlonePayload(i) ==
    BuildPayload(calls[i].args.prompt, calls[i].args.model, calls[i].args.init_image_b64,
                 calls[i].args.params)
AloneQueries(i, n) ==
    [k \in 1..n |-> [op |-> "GET_STATUS", call |-> i, job_id |-> JobOf(i),
                     kind |-> "response", status |-> 200]]

\* C22: with two calls interleaved in any way, the caller's params dict of each call
\* is left as it was passed; each call posts the payload, gets the job identifier,
\* sends the status queries and returns the result it would alone with the same
\* answers; and no key of the other call's params shows up in a call's parameters
\* unless it is a default or one of that call's own.
C22_Isolated ==
    \A i \in CallIds :
        /\ CallerParams0(i) # None => heap[ParamsObject(i)] = CallerParams0(i)[1]
        /\ \A k \in DOMAIN PostsOf(i) :
                /\ PostsOf(i)[k].payload = AlonePayload(i)
                /\ DOMAIN PostsOf(i)[k].payload.params \subseteq
                        DOMAIN default_params \cup {"denoising_strength"}
                        \cup (IF CallerParams0(i) = None THEN {}
                              ELSE DOMAIN CallerParams0(i)[1])
        /\ Len(PostsOf(i)) <= 1
        /\ calls[i].pc \in {"poll", "returned"} => calls[i].job_id = JobOf(i)
        /\ QueriesOf(i) = AloneQueries(i, Len(QueriesOf(i)))
        /\ Len(QueriesOf(i)) <= 2
        /\ calls[i].pc = "returned" =>
                /\ Len(QueriesOf(i)) = 2
                /\ calls[i].images = Some(<<ResultOf(i)>>)

C22_Witness ==
    /\ calls[1].pc = "returned"
    /\ calls[2].pc = "returned"
    /\ calls[1].args.params = Some([karras |-> TRUE])
    /\ calls[2].args.params = Some([steps |-> 20])
    /\ calls[1].args.init_image_b64 = None
    /\ calls[2].args.init_image_b64 # None
    /\ log[1].call = 2 /\ log[2].call = 1 /\ log[3].call = 2 /\ log[4].call = 1

====
